---- MODULE Spec2Model ----
(***************************************************************************)
(* McQuic: the quantization and entropy-coding core.                       *)
(*                                                                         *)
(*   EntropyCoder   src/mcquic/modules/entropyCoder.py                     *)
(*   quantizers     src/mcquic/modules/quantizer.py                        *)
(*   rANS coder     mcquic.rans (ported from CompressAI, built from        *)
(*                  third_party; modelled from its contract)               *)
(*                                                                         *)
(* Tensors are records [shape |-> <<n, m, h, w>>, data |-> nested tuples]; *)
(* positions are 1-based, symbol and group VALUES are 0-based as in the    *)
(* Python code.  The usage histogram (_freqEMA, a float tensor) is kept as *)
(* an exact fixed-point number: the integer v stands for v / Unit.         *)
(***************************************************************************)
EXTENDS Integers, Sequences, FiniteSets, TLC

\* ------------------------------------------------------------------ bounds
\* largest batch size n of a code / feature tensor
MaxN == 2
\* largest height and width of the first level
MaxH == 2
MaxW == 2
\* forward calls (frequency updates) per worker of an entropy coder run
MaxForward == 2
\* forward calls per worker of a quantizer run
MaxTrain == 1
\* reAssignCodebook calls, and syncCodebook calls, per worker
MaxRefresh == 1
\* workers (ranks 0 .. NumWorkers - 1) of the distributed runs
NumWorkers == 2

\* ------------------------------------------------------ program constants
\* "normalize with precision 16bits": (freqEMA / sum * 65536).round()
FreqScale == 65536
\* ema is a float in [0, 1]; the model writes it in hundredths (default 0.99)
DecayDen == 100
DefaultEma == 99

RECURSIVE Pow(_, _)
Pow(b, e) == IF e = 0 THEN 1 ELSE b * Pow(b, e - 1)

\* one unit of histogram mass: the integer that stands for the float 1.0
Unit == Pow(DecayDen, MaxForward)

\* Python's None
Null == <<>>

\* a list built element by element (tensor.tolist(), list(...))
ToList(s) == s \o <<>>

\* a local variable: Only({body : v \in {value}}) is body with v assigned once
Only(S) == CHOOSE v \in S : TRUE

\* ------------------------------------------------------------ arithmetic
RECURSIVE SumSeq(_)
SumSeq(s) == IF s = <<>> THEN 0 ELSE Head(s) + SumSeq(Tail(s))

Min2(a, b) == IF a < b THEN a ELSE b
Max2(a, b) == IF a > b THEN a ELSE b

\* floor and remainder of a * 65536 / b, in four steps of 4 bits so that no
\* intermediate product leaves the 32-bit range
Stage16(qr, b) == [q |-> qr.q * 16 + (qr.r * 16) \div b, r |-> (qr.r * 16) % b]
ScaleDiv(a, b) ==
    Stage16(Stage16(Stage16(Stage16([q |-> a \div b, r |-> a % b], b), b), b), b)

\* torch.round: round half to even
RoundHalfEven(a, b) ==
    LET s == ScaleDiv(a, b)
    IN  IF 2 * s.r > b \/ (2 * s.r = b /\ s.q % 2 = 1) THEN s.q + 1 ELSE s.q

\* std::round: round half away from zero (arguments are non-negative)
RoundHalfAway(a, b) ==
    LET s == ScaleDiv(a, b)
    IN  IF 2 * s.r >= b THEN s.q + 1 ELSE s.q

\* ---------------------------------------------------------------- tensors
\* tensor.flatten() of one image [m, h, w]: row-major (group, height, width)
Flatten(d, mm, h, w) ==
    ToList([j \in 1..(mm * h * w) |->
        d[((j - 1) \div (h * w)) + 1][(((j - 1) % (h * w)) \div w) + 1][((j - 1) % w) + 1]])

\* torch.tensor(list).reshape(m, h, w)
Reshape(s, mm, h, w) ==
    ToList([g \in 1..mm |-> ToList([y \in 1..h |-> ToList([x \in 1..w |->
        s[((g - 1) * h + (y - 1)) * w + x]])])])

\* torch.arange(m)[:, None, None].expand(m, h, w)
ExpandIndices(mm, h, w) ==
    ToList([g \in 1..mm |-> ToList([y \in 1..h |-> ToList([x \in 1..w |-> g - 1])])])

\* torch.zeros(m, h, w) / torch.zeros_like(codePerImage)
Zeros(mm, h, w) ==
    ToList([g \in 1..mm |-> ToList([y \in 1..h |-> ToList([x \in 1..w |-> 0])])])

\* ------------------------------------------------- mcquic.rans (C++ port)
\* pmfToQuantizedCDF(pmf, 16) with pmf[e] = nums[e] / den.
\* Quantised masses before the zero-width repair.
PmfRounded(nums, den) == ToList([e \in 1..Len(nums) |-> RoundHalfAway(nums[e], den)])
PmfMasses(nums, den) ==
    LET r == PmfRounded(nums, den)
        total == SumSeq(r)
    IN  ToList([e \in 1..Len(nums) |-> ScaleDiv(r[e], total).q])

RECURSIVE PartialSum(_, _)
PartialSum(s, e) == IF e = 0 THEN 0 ELSE s[e] + PartialSum(s, e - 1)

\* boundaries 0 = c[1] <= ... <= c[K + 1] = 2^16 (c[e + 1] - c[e] is the mass of e - 1)
PmfRawCdf(nums, den) ==
    LET ms == PmfMasses(nums, den)
        K == Len(nums)
    IN  ToList([e \in 1..(K + 1) |-> IF e = K + 1 THEN FreqScale ELSE PartialSum(ms, e - 1)])

\* the symbol of least mass > 1 to steal from (first one on ties), 0 if none
RECURSIVE BestSteal(_, _, _, _)
BestSteal(c, j, best, bestFreq) ==
    IF j > Len(c) - 1 THEN best
    ELSE LET f == c[j + 1] - c[j]
         IN  IF f > 1 /\ (best = 0 \/ f < bestFreq)
             THEN BestSteal(c, j + 1, j, f)
             ELSE BestSteal(c, j + 1, best, bestFreq)

RECURSIVE StealLoop(_, _)
StealLoop(c, i) ==
    IF i > Len(c) - 1 THEN c
    ELSE IF c[i] # c[i + 1] THEN StealLoop(c, i + 1)
    ELSE LET b == BestSteal(c, 1, 0, 0)
             c2 == IF b = 0 THEN c
                   ELSE IF b < i
                   THEN ToList([j \in 1..Len(c) |->
                                   IF j >= b + 1 /\ j <= i THEN c[j] - 1 ELSE c[j]])
                   ELSE ToList([j \in 1..Len(c) |->
                                   IF j >= i + 1 /\ j <= b THEN c[j] + 1 ELSE c[j]])
         IN  StealLoop(c2, i + 1)

PmfToQuantizedCDF(nums, den) == StealLoop(PmfRawCdf(nums, den), 1)

\* rANS with a 31-bit state and byte-wise renormalisation over 16-bit masses.
\* lower bound of the normalised state interval
RansL == 8388608

\* renormalise before pushing a symbol of mass fr: emit low bytes while
\* x >= ((RansL >> 16) << 8) * fr; the stream is written back to front
RECURSIVE RansEncRenorm(_, _)
RansEncRenorm(st, fr) ==
    IF st.x \div 32768 >= fr
    THEN RansEncRenorm([x |-> st.x \div 256, out |-> <<st.x % 256>> \o st.out], fr)
    ELSE st

RansEncPut(st, start, fr) ==
    Only({[x |-> (r.x \div fr) * FreqScale + (r.x % fr) + start, out |-> r.out] :
            r \in {RansEncRenorm(st, fr)}})

\* the symbols are pushed last to first, so that the decoder pops them first to last
RECURSIVE RansEncSymbols(_, _, _, _, _, _)
RansEncSymbols(st, i, symbols, indexes, cdfs, offsets) ==
    IF i = 0 THEN st
    ELSE LET c == cdfs[indexes[i] + 1]
             v == symbols[i] - offsets[indexes[i] + 1]
         IN  Only({RansEncSymbols(st2, i - 1, symbols, indexes, cdfs, offsets) :
                     st2 \in {RansEncPut(st, c[v + 1], c[v + 2] - c[v + 1])}})

RansEncFlush(st) ==
    <<st.x % 256, (st.x \div 256) % 256, (st.x \div 65536) % 256, st.x \div 16777216>> \o st.out

\* RansEncoder.encodeWithIndexes(symbols, indexes, cdfs, cdfSizes, offsets) -> bytes
\* (every symbol is below cdfSizes - 2, so the bypass mode is never entered)
EncodeWithIndexes(symbols, indexes, cdfs, cdfSizes, offsets) ==
    Only({RansEncFlush(RansEncSymbols([x |-> RansL, out |-> <<>>], Len(sy), sy, ix, cdfs, off)) :
            sy \in {symbols}, ix \in {indexes}, off \in {offsets}})

\* a byte of the stream; a read past its end yields whatever the memory holds (pad)
ByteAt(bytes, p, pad) == IF p <= Len(bytes) THEN bytes[p] ELSE pad

RECURSIVE RansDecRenorm(_, _, _)
RansDecRenorm(st, bytes, pad) ==
    IF st.x < RansL
    THEN RansDecRenorm([x |-> st.x * 256 + ByteAt(bytes, st.pos, pad), pos |-> st.pos + 1],
                       bytes, pad)
    ELSE st

\* first boundary above cum among the first size entries: its symbol is j - 2
RECURSIVE RansFind(_, _, _, _)
RansFind(c, cum, j, size) ==
    IF j >= size \/ j >= Len(c) \/ c[j] > cum THEN j - 2 ELSE RansFind(c, cum, j + 1, size)

RECURSIVE RansDecSymbols(_, _, _, _, _, _, _, _)
RansDecSymbols(st, i, bytes, indexes, cdfs, cdfSizes, offsets, pad) ==
    IF i > Len(indexes) THEN <<>>
    ELSE LET c == cdfs[indexes[i] + 1]
             cum == st.x % FreqScale
         IN  Only({<<s + offsets[indexes[i] + 1]>>
                   \o Only({RansDecSymbols(st2, i + 1, bytes, indexes, cdfs, cdfSizes,
                                           offsets, pad) :
                            st2 \in {RansDecRenorm(
                                        [x |-> (c[s + 2] - c[s + 1]) * (st.x \div FreqScale)
                                                + cum - c[s + 1],
                                         pos |-> st.pos], bytes, pad)}}) :
                   s \in {RansFind(c, cum, 1, cdfSizes[indexes[i] + 1])}})

\* RansDecoder.decodeWithIndexes(bytes, indexes, cdfs, cdfSizes, offsets) -> symbols
DecodeWithIndexes(bytes, indexes, cdfs, cdfSizes, offsets, pad) ==
    LET x0 == ByteAt(bytes, 1, pad) + 256 * ByteAt(bytes, 2, pad)
              + 65536 * ByteAt(bytes, 3, pad) + 16777216 * (ByteAt(bytes, 4, pad) % 128)
    IN  Only({RansDecSymbols([x |-> st0, pos |-> 5], 1, bytes, ix, cdfs, sz, off, pad) :
                st0 \in {x0}, ix \in {indexes}, sz \in {cdfSizes}, off \in {offsets}})


\* ============================================================ EntropyCoder
\* A coder is the record [freqEMA, cdfs, freq, needUpdate] of one EntropyCoder
\* object; freqEMA[l][g][e] is the histogram of level l, group g, entry e - 1.

\* EntropyCoder.__init__(m, k, ema): the histogram starts uniform (all ones)
NewCoder(mm, kk) ==
    [freqEMA |-> ToList([l \in 1..Len(kk) |->
                    ToList([g \in 1..mm |-> ToList([e \in 1..kk[l] |-> Unit])])]),
     cdfs |-> Null, freq |-> Null, needUpdate |-> TRUE]

\* .long() yields 64-bit integers.  The model keeps them at 30 bits: the
\* quantised frequencies stay below 2^17, and the only sum that wraps, K copies
\* of the least integer, wraps alike at any width (to 0 for even K, to the
\* least integer for odd K).
LongMin == 0 - Pow(2, 29)
WrapLong(v) == ((v + Pow(2, 29)) % Pow(2, 30)) - Pow(2, 29)

\* the conversion of NaN to int64 is undefined: the least integer on x86 CPUs,
\* 0 on the devices that saturate
NanCasts == {0, LongMin}
VARIABLE nanCast

\* (freqEMA / freqEMA.sum(-1, keepdim=True) * 65536).round().long() of one
\* group; a group of zero total is 0 / 0 = NaN in every entry
FreqRow(row) ==
    IF SumSeq(row) = 0
    THEN ToList([e \in 1..Len(row) |-> nanCast])
    ELSE ToList([e \in 1..Len(row) |-> RoundHalfEven(row[e], SumSeq(row))])

FreqOf(fe) ==
    ToList([l \in 1..Len(fe) |-> ToList([g \in 1..Len(fe[l]) |-> FreqRow(fe[l][g])])])

\* a Freq that normalises the histogram in place
FreqReadInPlace(c) ==
    [c EXCEPT !.freq = FreqOf(c.freqEMA), !.freqEMA = FreqOf(c.freqEMA)]

\* a Freq that keeps the frequencies it has, whatever the flag says
FreqReadStale(c) ==
    IF c.freq # Null THEN c ELSE [c EXCEPT !.freq = FreqOf(c.freqEMA)]

\* the Freq property: the coder after the read (the value returned is its freq)
FreqRead(c) ==
    IF c.freq # Null /\ ~c.needUpdate THEN c ELSE [c EXCEPT !.freq = FreqOf(c.freqEMA)]

\* freqAtM.sum() of an int64 tensor
RECURSIVE SumLong(_)
SumLong(s) == IF s = <<>> THEN 0 ELSE WrapLong(Head(s) + SumLong(Tail(s)))

\* a fallback that hands out the whole mass to the first symbol
UniformPmfFirst(frow) == ToList([e \in 1..Len(frow) |-> IF e = 1 THEN Len(frow) ELSE 0])

\* torch.ones_like(freqAtM, dtype=torch.float) / len(freqAtM), as numerators over K
UniformPmf(frow) == ToList([e \in 1..Len(frow) |-> 1])

\* one group's table: uniform if the group's total is below 1
CdfRow(frow) ==
    IF SumLong(frow) < 1
    THEN PmfToQuantizedCDF(UniformPmf(frow), Len(frow))
    ELSE PmfToQuantizedCDF(frow, SumLong(frow))

CdfsOf(fr) ==
    ToList([l \in 1..Len(fr) |-> ToList([g \in 1..Len(fr[l]) |-> CdfRow(fr[l][g])])])

\* a CDFs that returns whatever tables it has, stale or not
CDFsReadStale(c) ==
    IF c.cdfs # Null THEN c
    ELSE Only({[f EXCEPT !.cdfs = CdfsOf(f.freq)] : f \in {FreqRead(c)}})

\* "if self.cdfs is not None and not self.needUpdate": the read is served
\* from the cache
CacheHit(c) == c.cdfs # Null /\ ~c.needUpdate

\* the CDFs property: the coder after the read (the value returned is its cdfs)
CDFsRead(c) ==
    IF CacheHit(c) THEN c
    ELSE Only({[f EXCEPT !.cdfs = CdfsOf(f.freq)] : f \in {FreqRead(c)}})

\* _checkShape: the error it raises ("ok" if none)
RECURSIVE CheckLevels(_, _, _, _)
CheckLevels(codes, l, n, mm) ==
    IF l > Len(codes) THEN "ok"
    ELSE IF n < 1 THEN "RuntimeError: n = 0"
    ELSE IF mm # codes[l].shape[2] THEN "RuntimeError: m is inconsistent"
    ELSE IF n # codes[l].shape[1] THEN "RuntimeError: n is inconsistent"
    ELSE CheckLevels(codes, l + 1, n, mm)

\* a shape check that lets an empty batch through
CheckShapeSkipZero(codes) ==
    IF Len(codes) < 1 THEN "RuntimeError: length of codes is 0"
    ELSE LET bad == {l \in 1..Len(codes) :
                        \/ codes[l].shape[2] # codes[1].shape[2]
                        \/ codes[l].shape[1] # codes[1].shape[1]}
         IN  IF bad = {} THEN "ok"
             ELSE IF codes[CHOOSE l \in bad : \A j \in bad : l <= j].shape[2]
                        # codes[1].shape[2]
             THEN "RuntimeError: m is inconsistent"
             ELSE "RuntimeError: n is inconsistent"

CheckShape(codes) ==
    IF Len(codes) < 1 THEN "RuntimeError: length of codes is 0"
    ELSE CheckLevels(codes, 1, codes[1].shape[1], codes[1].shape[2])

\* the three arrays handed to the coder with the symbols of one image of one level
CompressIdx(mm, codePerImage, h, w) == Flatten(ExpandIndices(mm, h, w), mm, h, w)
CompressCdfSizes(mm, ki) == ToList([g \in 1..mm |-> ki + 2])
CompressOffsets(mm, codePerImage, h, w) == Flatten(Zeros(mm, h, w), mm, h, w)

\* a loop that encodes the first image again and again
ImageFirst(code, i) == code.data[1]

\* codePerImage of the loop "for i, codePerImage in enumerate(code)"
ImageOf(code, i) == code.data[i]

\* the binary of image i at level l
CompressImage(code, i, mm, ki, cdf) ==
    LET h == code.shape[3]
        w == code.shape[4]
    IN  Only({EncodeWithIndexes(Flatten(img, mm, h, w), CompressIdx(mm, img, h, w), cdf,
                                CompressCdfSizes(mm, ki), CompressOffsets(mm, img, h, w)) :
                img \in {ImageOf(code, i)}})

\* a loop that stops after the first level
ZipLevelsFirst(codes, kk, cdfs) == Min2(1, Len(codes))

\* zip(codes, self._k, self.CDFs) stops at the shortest of the three
ZipLevels(codes, kk, cdfs) == Min2(Len(codes), Min2(Len(kk), Len(cdfs)))

CodeSize(mm, heights, widths, kk) == [m |-> mm, heights |-> heights, widths |-> widths, k |-> kk]

\* EntropyCoder.compress(codes): what it raises or returns, the number of
\* encoder calls it made, and the coder it leaves
CompressOp(c, kk, codes) ==
    LET chk == CheckShape(codes)
    IN  IF chk # "ok"
        THEN [raised |-> chk, binaries |-> <<>>, codeSizes |-> <<>>,
              encoded |-> 0, coder |-> c]
        ELSE LET n == codes[1].shape[1]
                 mm == codes[1].shape[2]
             IN  Only({
                    LET cdfs == c2.cdfs
                        L == ZipLevels(codes, kk, cdfs)
                        heights == ToList([l \in 1..L |-> codes[l].shape[3]])
                        widths == ToList([l \in 1..L |-> codes[l].shape[4]])
                    IN  [raised |-> "ok",
                         binaries |-> ToList([i \in 1..n |-> ToList([l \in 1..L |->
                                          CompressImage(codes[l], i, mm, kk[l], cdfs[l])])]),
                         codeSizes |-> ToList([i \in 1..n |->
                                          CodeSize(mm, heights, widths, kk)]),
                         encoded |-> n * L,
                         coder |-> c2] :
                    c2 \in {CDFsRead(c)}})

\* an index array laid out position by position instead of group by group
DecompressIdxInterleaved(m0, codeSize, h, w) ==
    ToList([j \in 1..(codeSize.m * h * w) |-> (j - 1) % codeSize.m])

\* the arrays decompress rebuilds from the header for one image of one level
DecompressIdx(m0, codeSize, h, w) == Flatten(ExpandIndices(codeSize.m, h, w), codeSize.m, h, w)
DecompressCdfSizes(codeSize, ki) == ToList([g \in 1..codeSize.m |-> ki + 2])
DecompressOffsets(codeSize, h, w) == Flatten(Zeros(codeSize.m, h, w), codeSize.m, h, w)

\* a reshape that takes the flat list as (m, w, h)
ReshapeTransposed(s, mm, h, w) ==
    ToList([g \in 1..mm |-> ToList([y \in 1..h |-> ToList([x \in 1..w |->
        s[((g - 1) * w + (x - 1)) * h + y]])])])

\* torch.tensor(restored).reshape(codeSize.m, h, w)
RestoredCode(s, mm, h, w) == Reshape(s, mm, h, w)

DecompressImage(binaryAtLv, m0, codeSize, l, ki, cdf, pad) ==
    LET h == codeSize.heights[l]
        w == codeSize.widths[l]
    IN  RestoredCode(DecodeWithIndexes(binaryAtLv, DecompressIdx(m0, codeSize, h, w), cdf,
                                       DecompressCdfSizes(codeSize, ki),
                                       DecompressOffsets(codeSize, h, w), pad),
                     codeSize.m, h, w)

\* EntropyCoder.decompress(binaries, codeSizes): the restored codes, one
\* stacked tensor [n, m, h, w] per level, and the coder it leaves
DecompressOp(c, kk, binaries, codeSizes, pad) ==
    LET lv == Len(binaries[1])
        m0 == codeSizes[1].m
        n == Min2(Len(binaries), Len(codeSizes))
    IN  Only({
            LET cdfs == c2.cdfs
                L == Min2(lv, Min2(Len(cdfs), Min2(Len(kk),
                          Min2(Len(codeSizes[1].heights), Len(codeSizes[1].widths)))))
            IN  [codes |-> ToList([l \in 1..L |->
                             [shape |-> <<n, codeSizes[1].m, codeSizes[1].heights[l],
                                          codeSizes[1].widths[l]>>,
                              data |-> ToList([i \in 1..n |->
                                         DecompressImage(binaries[i][l], m0, codeSizes[i], l,
                                                         kk[l], cdfs[l], pad)])]]),
                 coder |-> c2] :
            c2 \in {CDFsRead(c)}})

\* code.sum((0, 2, 3)) of one [n, m, h, w, k] one-hot tensor, given as the codes
\* it is the one-hot encoding of: the number of positions assigned to each entry
CountRow(code, g, K) ==
    ToList([e \in 1..K |->
        Cardinality({p \in (1..code.shape[1]) \X (1..code.shape[3]) \X (1..code.shape[4]) :
                        code.data[p[1]][g][p[2]][p[3]] = e - 1})])
TotalCount(code, K) == ToList([g \in 1..code.shape[2] |-> CountRow(code, g, K)])

\* a blend with the two weights exchanged
EmaBlendSwapped(dn, cnt, old) ==
    ToList([g \in 1..Len(old) |-> ToList([e \in 1..Len(old[g]) |->
        ((DecayDen - dn) * cnt[g][e] * Unit + dn * old[g][e]) \div DecayDen])])

\* self._decay * totalCount + (1 - self._decay) * self._freqEMA[lv], decay = dn / DecayDen
EmaBlend(dn, cnt, old) ==
    ToList([g \in 1..Len(old) |-> ToList([e \in 1..Len(old[g]) |->
        (dn * cnt[g][e] * Unit + (DecayDen - dn) * old[g][e]) \div DecayDen])])

\* ============================================================== quantizers
\* A codebook is cb[l][g][e]: the embedding (EmbedDim numbers) of entry e - 1
\* of group g at level l.  A feature tensor is [shape |-> <<n, c, h, w>>,
\* data |-> ...] with c = m * EmbedDim channels.  The injected networks
\* (latentStageEncoder, the heads) are taken as the identity.

\* d = channel // m of torch.empty(m, ki, channel // m)
EmbedDim == 1
\* logit[randomMask] += -1e9
DropPenalty == 1000000000
\* Consts.Eps = 1 / EpsInv, the "never assigned" threshold
EpsInv == 1000000

\* elementwise a - b and a + b of two tensors of one shape
TSub(a, b) ==
    [shape |-> a.shape,
     data |-> ToList([i \in 1..a.shape[1] |-> ToList([c \in 1..a.shape[2] |->
                ToList([y \in 1..a.shape[3] |-> ToList([x \in 1..a.shape[4] |->
                    a.data[i][c][y][x] - b.data[i][c][y][x]])])])])]
TAdd(a, b) ==
    [shape |-> a.shape,
     data |-> ToList([i \in 1..a.shape[1] |-> ToList([c \in 1..a.shape[2] |->
                ToList([y \in 1..a.shape[3] |-> ToList([x \in 1..a.shape[4] |->
                    a.data[i][c][y][x] + b.data[i][c][y][x]])])])])]

\* _distance: x2 + c2 - 2 * inter, the squared distance of the feature vector
\* of group g at (i, y, x) to entry e
Distance(cbl, x, i, g, y, xx, e) ==
    SumSeq([dd \in 1..EmbedDim |->
        (x.data[i][(g - 1) * EmbedDim + dd][y][xx] - cbl[g][e][dd])
        * (x.data[i][(g - 1) * EmbedDim + dd][y][xx] - cbl[g][e][dd])])

\* argmin(-1): the first position (0-based) of the least value
RECURSIVE ArgMinFrom(_, _, _)
ArgMinFrom(s, j, best) ==
    IF j > Len(s) THEN best - 1
    ELSE ArgMinFrom(s, j + 1, IF s[j] < s[best] THEN j ELSE best)
ArgMin(s) == ArgMinFrom(s, 2, 1)

\* _multiCodebookQuantization.encode(x): [n, c, h, w] -> codes [n, m, h, w]
QuantEncode(cbl, x) ==
    [shape |-> <<x.shape[1], Len(cbl), x.shape[3], x.shape[4]>>,
     data |-> ToList([i \in 1..x.shape[1] |-> ToList([g \in 1..Len(cbl) |->
                ToList([y \in 1..x.shape[3] |-> ToList([xx \in 1..x.shape[4] |->
                    ArgMin(ToList([e \in 1..Len(cbl[g]) |->
                        Distance(cbl, x, i, g, y, xx, e)]))])])])])]

\* _multiCodebookDeQuantization.decode(code): codes [n, m, h, w] -> [n, c, h, w]
DequantDecode(cbl, code) ==
    [shape |-> <<code.shape[1], Len(cbl) * EmbedDim, code.shape[3], code.shape[4]>>,
     data |-> ToList([i \in 1..code.shape[1] |-> ToList([c \in 1..(Len(cbl) * EmbedDim) |->
                ToList([y \in 1..code.shape[3] |-> ToList([xx \in 1..code.shape[4] |->
                    cbl[((c - 1) \div EmbedDim) + 1]
                       [code.data[i][((c - 1) \div EmbedDim) + 1][y][xx] + 1]
                       [((c - 1) % EmbedDim) + 1]])])])])]

\* an encoder that hands its input on in place of the residual
EncoderEncodeNoResidual(cbl, x, hasLatentHead) ==
    [residual |-> IF hasLatentHead THEN x ELSE Null, code |-> QuantEncode(cbl, x)]
\* _quantizerEncoder.encode(x): (residual or None, code)
EncoderEncode(cbl, x, hasLatentHead) ==
    Only({[residual |-> IF hasLatentHead
                        THEN Only({TSub(x, q) : q \in {DequantDecode(cbl, code)}})
                        ELSE Null,
           code |-> code] :
            code \in {QuantEncode(cbl, x)}})

\* UMGMQuantizer.encode(x): the codes of the levels, first level first
RECURSIVE UMGMEncodeFrom(_, _, _)
UMGMEncodeFrom(cb, x, i) ==
    IF i > Len(cb) THEN <<>>
    ELSE Only({<<r.code>> \o UMGMEncodeFrom(cb, r.residual, i + 1) :
                r \in {EncoderEncode(cb[i], x, i < Len(cb))}})
UMGMEncode(cb, x) == UMGMEncodeFrom(cb, x, 1)

\* _quantizerDecoder.decode(code, formerLevel)
DecoderDecode(cbl, code, formerLevel, hasSideHead) ==
    IF hasSideHead
    THEN Only({TAdd(q, formerLevel) : q \in {DequantDecode(cbl, code)}})
    ELSE DequantDecode(cbl, code)

\* UMGMQuantizer.decode(codes): zip(self._decoders[::-1], codes[::-1])
RECURSIVE UMGMDecodeFrom(_, _, _, _)
UMGMDecodeFrom(cb, codes, j, formerLevel) ==
    IF j > Min2(Len(cb), Len(codes)) THEN formerLevel
    ELSE Only({UMGMDecodeFrom(cb, codes, j + 1, xHat) :
                xHat \in {DecoderDecode(cb[Len(cb) + 1 - j], codes[Len(codes) + 1 - j],
                                        formerLevel, Len(cb) + 1 - j < Len(cb))}})
UMGMDecode(cb, codes) == UMGMDecodeFrom(cb, codes, 1, Null)

\* _multiCodebookQuantization.forward(x) under one draw of the generator:
\* draw.drop are the entries _randomDrop masks out, draw.shift moves the
\* Gumbel sample away from the arg-max.  code = logit.argmax(-1)
QuantForwardCode(cbl, x, draw) ==
    [shape |-> <<x.shape[1], Len(cbl), x.shape[3], x.shape[4]>>,
     data |-> ToList([i \in 1..x.shape[1] |-> ToList([g \in 1..Len(cbl) |->
                ToList([y \in 1..x.shape[3] |-> ToList([xx \in 1..x.shape[4] |->
                    ArgMin(ToList([e \in 1..Len(cbl[g]) |->
                        Distance(cbl, x, i, g, y, xx, e)
                        + (IF (e - 1) \in draw.drop THEN DropPenalty ELSE 0)]))])])])])]

\* the entry each one-hot sample of gumbelSoftmax(logit, temperature, True) selects
QuantForwardSample(cbl, code, draw) ==
    [shape |-> code.shape,
     data |-> ToList([i \in 1..code.shape[1] |-> ToList([g \in 1..code.shape[2] |->
                ToList([y \in 1..code.shape[3] |-> ToList([xx \in 1..code.shape[4] |->
                    (code.data[i][g][y][xx] + draw.shift) % Len(cbl[g])])])])])]

\* _quantizerEncoder.forward(x): (residual or None, code); the quantized q is
\* the embedding of the sample
EncoderForward(cbl, x, hasLatentHead, draw) ==
    Only({[residual |->
                IF hasLatentHead
                THEN Only({TSub(x, q) :
                            q \in {DequantDecode(cbl, QuantForwardSample(cbl, code, draw))}})
                ELSE Null,
           code |-> code] :
            code \in {QuantForwardCode(cbl, x, draw)}})

\* UMGMQuantizer.forward(x): the codes whose one-hot encodings it hands to
\* self._entropyCoder(oneHots)
RECURSIVE UMGMForwardFrom(_, _, _, _)
UMGMForwardFrom(cb, x, i, draw) ==
    IF i > Len(cb) THEN <<>>
    ELSE Only({<<r.code>> \o UMGMForwardFrom(cb, r.residual, i + 1, draw) :
                r \in {EncoderForward(cb[i], x, i < Len(cb), draw)}})
UMGMForward(cb, x, draw) == UMGMForwardFrom(cb, x, 1, draw)

\* BaseQuantizer._validateCode(refCodes, decompressed): the error it raises
RECURSIVE ValidateFrom(_, _, _)
ValidateFrom(refCodes, decompressed, l) ==
    IF l > Min2(Len(refCodes), Len(decompressed)) THEN "ok"
    ELSE IF refCodes[l].data # decompressed[l].data
    THEN "RuntimeError: wrong decompressed result"
    ELSE ValidateFrom(refCodes, decompressed, l + 1)
ValidateCode(refCodes, decompressed) == ValidateFrom(refCodes, decompressed, 1)

\* BaseQuantizer.compress(x): codes, binaries, codeSize
QCompressOp(cb, c, kk, x) ==
    Only({Only({[raised |-> r.raised, codes |-> codes, binaries |-> r.binaries,
                 codeSizes |-> r.codeSizes, encoded |-> r.encoded, coder |-> r.coder] :
                    r \in {CompressOp(c, kk, codes)}}) :
            codes \in {UMGMEncode(cb, x)}})

\* BaseQuantizer.decompress(binaries, codeSize): the call of _validateCode is
\* commented out, the decoder runs on whatever the entropy coder restored
QDecompressOp(cb, c, kk, binaries, codeSizes, pad) ==
    Only({[raised |-> "ok", decompressed |-> r.codes, restored |-> UMGMDecode(cb, r.codes),
           coder |-> r.coder] :
            r \in {DecompressOp(c, kk, binaries, codeSizes, pad)}})

\* EntropyCoder.NormalizedFreq: per level [m, k] fractions that sum to 1 in
\* each group, kept as numerators over the group's total
NormalizedFreq(c) ==
    ToList([l \in 1..Len(c.freqEMA) |-> ToList([g \in 1..Len(c.freqEMA[l]) |->
        [num |-> c.freqEMA[l][g], den |-> SumSeq(c.freqEMA[l][g])]])])

\* the members of a set of positions, ascending
RECURSIVE Ascending(_)
Ascending(S) ==
    IF S = {} THEN <<>>
    ELSE LET lo == CHOOSE e \in S : \A f \in S : e <= f
         IN  <<lo>> \o Ascending(S \ {lo})

\* torch.argsort(freqGroup, descending=True); equal keys come in the order the
\* sort happens to leave them: by position ("first") or against it ("last")
RECURSIVE ArgSortFrom(_, _, _)
ArgSortFrom(key, S, tie) ==
    IF S = {} THEN <<>>
    ELSE LET top == CHOOSE e \in S : \A f \in S :
                        \/ key[e] > key[f]
                        \/ key[e] = key[f] /\ (IF tie = "first" THEN e <= f ELSE e >= f)
         IN  <<top>> \o ArgSortFrom(key, S \ {top}, tie)

\* torch.argsort(freqGroup, descending=True)
ArgSortDescending(key, tie) == ArgSortFrom(key, 1..Len(key), tie)

\* no mask at all: every never-assigned entry stays a slot
ProtectNone(u, K) == 0
\* a mask that sets half of the never-assigned entries aside
ProtectHalf(u, K) == u \div 2

\* len(torch.randperm(len(mask))[self._k // 2:]): how many of the u
\* never-assigned entries get the mark -1
ProtectCount(u, K) == u - K \div 2

\* a threshold that takes every entry used less than half of the time for
\* never assigned
NeverAssignedLocLoose(fg) == {e \in 1..Len(fg.num) : fg.den > 0 /\ 2 * fg.num[e] < fg.den}

\* freqGroup < Consts.Eps, entry by entry (0 / 0 compares false)
NeverAssignedLoc(fg) ==
    {e \in 1..Len(fg.num) : fg.den > 0 /\ fg.num[e] <= (fg.den - 1) \div EpsInv}

\* one group of _multiCodebookQuantization.reAssignCodebook: its locals (of
\* argIdx the part it uses, argIdx[:totalNeverAssigned]) and the group it writes.  perm is the outcome of torch.randperm: the
\* never-assigned entries from position perm + 1 on (cyclically) are the ones
\* it marks with -1
ReAssignGroupLocals(codebookGroup, fg, perm, tie) ==
    LET K == Len(codebookGroup)
        firstLoc == NeverAssignedLoc(fg)
        never == Ascending(firstLoc)
        u == Len(never)
        dropped == IF u > K \div 2
                   THEN {never[((perm + t) % u) + 1] : t \in 0..(ProtectCount(u, K) - 1)}
                   ELSE {}
        freqGroup == ToList([e \in 1..K |->
                        IF u > K \div 2 /\ e \in firstLoc
                        THEN (IF e \in dropped THEN -1 ELSE 0)
                        ELSE fg.num[e]])
        neverAssignedLoc == IF u > K \div 2
                            THEN Ascending({e \in 1..K : freqGroup[e] = 0 /\ e \in firstLoc})
                            ELSE never
        argIdx == ArgSortDescending(freqGroup, tie)
    IN  [never |-> firstLoc,
         dropped |-> dropped,
         neverAssignedLoc |-> neverAssignedLoc,
         argIdx |-> SubSeq(argIdx, 1, Len(neverAssignedLoc)),
         group |-> ToList([e \in 1..K |->
            IF \E t \in 1..Len(neverAssignedLoc) : neverAssignedLoc[t] = e
            THEN codebookGroup[argIdx[CHOOSE t \in 1..Len(neverAssignedLoc) :
                                          neverAssignedLoc[t] = e]]
            ELSE codebookGroup[e]])]

ReAssignGroup(codebookGroup, fg, perm, tie) ==
    ReAssignGroupLocals(codebookGroup, fg, perm, tie).group

\* an embedding value v of the model stands for the float v / EmbedScale
EmbedScale == 200
\* "> 1e-4" = 1 / DiffThresholdInv
DiffThresholdInv == 10000

\* ((codebook - self._codebook) ** 2).sum(-1) > 1e-4 of one entry
Diff(new, old) ==
    SumSeq([dd \in 1..Len(old) |-> (new[dd] - old[dd]) * (new[dd] - old[dd])])
        * DiffThresholdInv > EmbedScale * EmbedScale

\* _multiCodebookQuantization.reAssignCodebook(freq): the locals of each
\* group, the new codebook of the level and the flattened [m, k] bool it returns
ReAssignLevel(cbl, freq, perm, tie) ==
    Only({[locals |-> loc,
           codebook |-> ToList([g \in 1..Len(cbl) |->
                            IF g <= Len(loc) THEN loc[g].group ELSE cbl[g]]),
           proportion |-> ToList([j \in 1..(Len(cbl) * Len(cbl[1])) |->
                            LET g == ((j - 1) \div Len(cbl[1])) + 1
                                e == ((j - 1) % Len(cbl[1])) + 1
                            IN  g <= Len(loc) /\ Diff(loc[g].group[e], cbl[g][e])])] :
            loc \in {ToList([g \in 1..Min2(Len(cbl), Len(freq)) |->
                        ReAssignGroupLocals(cbl[g], freq[g], perm, tie)])}})

RECURSIVE Concat(_)
Concat(ss) == IF ss = <<>> THEN <<>> ELSE Head(ss) \o Concat(Tail(ss))

\* the number of TRUE entries of a list of booleans
CountTrue(bs) == Cardinality({j \in 1..Len(bs) : bs[j]})

\* the mean of the per-level means, as a fraction
MeanOfMeans(reassigned) ==
    LET L == Len(reassigned)
        dens == [l \in 1..L |-> Len(reassigned[l])]
        RECURSIVE Prod(_, _)
        Prod(j, skip) == IF j > L THEN 1
                         ELSE (IF j = skip THEN 1 ELSE dens[j]) * Prod(j + 1, skip)
    IN  [num |-> SumSeq([l \in 1..L |-> CountTrue(reassigned[l]) * Prod(1, l)]),
         den |-> L * Prod(1, 0)]

\* torch.cat(reassigned).float().mean(), as a fraction
CatMean(reassigned) ==
    [num |-> CountTrue(Concat(reassigned)), den |-> Len(Concat(reassigned))]

\* UMGMQuantizer.reAssignCodebook: zip(self._encoders, freqs); the new
\* codebooks, the locals of every level and group, and the proportion returned
UMGMReAssign(cb, freqs, perm, tie) ==
    Only({[codebook |-> ToList([l \in 1..Len(cb) |->
                            IF l <= Len(lv) THEN lv[l].codebook ELSE cb[l]]),
           locals |-> ToList([l \in 1..Len(lv) |-> lv[l].locals]),
           proportion |-> CatMean(ToList([l \in 1..Len(lv) |-> lv[l].proportion]))] :
            lv \in {ToList([l \in 1..Min2(Len(cb), Len(freqs)) |->
                        ReAssignLevel(cb[l], freqs[l], perm, tie)])}})

\* ================================================================== state
VARIABLES
    world,      \* the ranks of the process group
    m,          \* groups
    k,          \* alphabet size of each level
    decay,      \* self._decay = 1 - ema, in hundredths
    coder,      \* coder[w]: the EntropyCoder of worker w
    codebook,   \* codebook[w]: the codebooks of worker w's quantizer
    rng,        \* rng[w]: the draws worker w has taken from its generator
    calls,      \* calls[w]: the reAssignCodebook and syncCodebook calls w has made
    bcast,      \* the codebooks rank 0 has broadcast, one per sync
    pc,         \* pc[w]: "idle", or the collective call worker w is blocked in
    job,        \* job[w]: the locals of the call worker w is running
    rounds,     \* the all-reduce calls so far: rounds[r][w] is w's contribution
    fwdLog,     \* fwdLog[w]: the forward calls of w, [codes, before] each
    feed,       \* the batches the training loader yields
    arg,        \* the batch this run encodes
    sent,       \* the last compress call: its input, its result, the coder before
    got,        \* the last decompress call: its result
    relog,      \* relog[w]: the locals of w's last reAssignCodebook and syncCodebook
    nets        \* the networks injected into a ResidualBackwardQuantizer

vars == <<world, m, k, decay, coder, codebook, rng, calls, bcast, pc, job, rounds,
          fwdLog, feed, arg, sent, got, nanCast, relog, nets>>

\* ----------------------------------------------------------------- inputs
\* spatial size of level l when the first level is h (each level halves it)
LevelSize(h, l) == Max2(1, h \div Pow(2, l - 1))

\* a code tensor [n, mm, h, w] over K entries, its values laid out with stride a
\* along the flattened image and shifted by b from image to image
PatternCode(n, mm, h, w, K, a, b, l) ==
    [shape |-> <<n, mm, h, w>>,
     data |-> ToList([i \in 1..n |-> ToList([g \in 1..mm |-> ToList([y \in 1..h |->
                 ToList([x \in 1..w |->
                    (a * (((g - 1) * h + (y - 1)) * w + (x - 1)) + b * (i - 1) + l) % K])])])])]

\* a well-formed list of codes: "len = level, code.shape = [n, m, h, w]"
GoodCodes(mm, kk, n, h, w, a, b) ==
    ToList([l \in 1..Len(kk) |->
        PatternCode(n, mm, LevelSize(h, l), LevelSize(w, l), kk[l], a, b, l)])

\* the same list with one defect
BadCodes(mm, kk, n, h, w, defect) ==
    CASE defect = "empty" -> <<>>
      [] defect = "n0" ->
            ToList([l \in 1..Len(kk) |-> PatternCode(0, mm, h, w, kk[l], 0, 0, l)])
      [] defect = "m" ->
            ToList([l \in 1..Len(kk) |->
                PatternCode(n, IF l = Len(kk) THEN mm + 1 ELSE mm, h, w, kk[l], 1, 1, l)])
      [] defect = "n" ->
            ToList([l \in 1..Len(kk) |->
                PatternCode(IF l = Len(kk) THEN n + 1 ELSE n, mm, h, w, kk[l], 1, 1, l)])
      [] defect = "n0tail" ->
            ToList([l \in 1..Len(kk) |->
                PatternCode(IF l = Len(kk) THEN 0 ELSE n, mm, h, w, kk[l], 1, 1, l)])

Defects(kk) == IF Len(kk) > 1 THEN {"empty", "n0", "m", "n", "n0tail"} ELSE {"empty", "n0"}

\* the batches handed to EntropyCoder.compress
CoderArgs(mm, kk) ==
    {GoodCodes(mm, kk, n, h, w, a, b) :
        n \in 1..MaxN, h \in 1..MaxH, w \in 1..MaxW, a \in {1, 2}, b \in {0, 1}}
    \cup {BadCodes(mm, kk, n, 1, 1, d) : n \in 1..MaxN, d \in Defects(kk)}

\* the codes whose one-hot encoding a training step feeds to EntropyCoder.forward
CoderFeed(mm, kk) == {GoodCodes(mm, kk, 1, MaxH, MaxW, 0, 0)}
\* the batches of the runs that watch the tables: a batch may be empty (n = 0)
CacheFeed(mm, kk) ==
    {GoodCodes(mm, kk, 0, MaxH, MaxW, 0, 0), GoodCodes(mm, kk, 1, MaxH, MaxW, 0, 0),
     GoodCodes(mm, kk, MaxN, MaxH, MaxW, 1, 1)}
CacheArgs(mm, kk) ==
    {GoodCodes(mm, kk, n, MaxH, MaxW, 1, 1) : n \in 1..MaxN}
    \cup {BadCodes(mm, kk, 1, 1, 1, "n0")}
DistFeed(mm, kk) == {GoodCodes(mm, kk, n, MaxH, MaxW, a, 0) : n \in {1, MaxN}, a \in {0, 1}}

\* a feature tensor [n, c, h, w] of small integers
PatternFeature(n, c, h, w, a, b) ==
    [shape |-> <<n, c, h, w>>,
     data |-> ToList([i \in 1..n |-> ToList([ch \in 1..c |-> ToList([y \in 1..h |->
                 ToList([x \in 1..w |->
                    (a * (((ch - 1) * h + (y - 1)) * w + (x - 1)) + b * (i - 1)) % 7])])])])]

\* the feature tensors handed to the quantizer's compress and forward
QuantArgs(mm) == {PatternFeature(MaxN, mm * EmbedDim, MaxH, MaxW, 2, 1)}
QuantFeed(mm) == {PatternFeature(1, mm * EmbedDim, MaxH, MaxW, 0, 0)}

\* the codebooks a quantizer starts from (nn.init.normal_ of each process)
NewCodebook(mm, kk, seed) ==
    ToList([l \in 1..Len(kk) |-> ToList([g \in 1..mm |-> ToList([e \in 1..kk[l] |->
        ToList([dd \in 1..EmbedDim |-> 3 * (e - 1) - 2 * (l - 1) + (g - 1) + seed])])])])

\* codebooks in which the second entry of every group lies next to the first
CloseCodebook(mm, kk, seed) ==
    ToList([l \in 1..Len(kk) |-> ToList([g \in 1..mm |-> ToList([e \in 1..kk[l] |->
        ToList([dd \in 1..EmbedDim |->
            IF e = 2 THEN (g - 1) + seed - 2 * (l - 1) + 1
            ELSE 3 * (e - 1) - 2 * (l - 1) + (g - 1) + seed])])])])

\* the histogram row of a group of K entries after long training (or after
\* load_state_dict): dead entries have decayed to 0, the others are used 1, 2,
\* ... times as often; the dead entries come first or last
TrainedRow(K, dead, deadFirst) ==
    LET d == Min2(dead, K - 1)
    IN  ToList([e \in 1..K |->
            IF deadFirst
            THEN (IF e <= d THEN 0 ELSE (e - d) * Unit)
            ELSE (IF e > K - d THEN 0 ELSE (K - d + 1 - e) * Unit)])

\* the histograms of a trained coder: groups alternate the side of the dead entries
TrainedHist(mm, kk, dead, deadFirst) ==
    ToList([l \in 1..Len(kk) |-> ToList([g \in 1..mm |->
        TrainedRow(kk[l], dead, IF g % 2 = 1 THEN deadFirst ELSE ~deadFirst)])])

\* the largest number of dead entries of a group in the runs
MaxDead == 4
\* the number of dead entries of a group of a trained quantizer that codes
QuantDead == 3

\* the outcomes of the generator: of one forward, of randperm, of argsort's ties
Draws == {[drop |-> {}, shift |-> 0], [drop |-> {0}, shift |-> 1]}
Perms == {0, 1}
Ties == {"first", "last"}

\* what a read past the end of a binary may find
PadBytes == {0, 255}

\* the coders of the runs: (m, k, ema in hundredths)
CoderConfigs ==
    { [m |-> 2, k |-> <<4>>, ema |-> DefaultEma],
      [m |-> 1, k |-> <<1>>, ema |-> DefaultEma],
      [m |-> 2, k |-> <<3, 2>>, ema |-> DefaultEma],
      [m |-> 1, k |-> <<2, 1>>, ema |-> 0] }
CacheConfigs ==
    { [m |-> 1, k |-> <<3>>, ema |-> 0],
      [m |-> 2, k |-> <<2, 1>>, ema |-> 0],
      [m |-> 1, k |-> <<4>>, ema |-> DefaultEma] }
DistConfigs ==
    { [m |-> 1, k |-> <<2>>, ema |-> 0],
      [m |-> 1, k |-> <<3>>, ema |-> 50],
      [m |-> 2, k |-> <<3, 2>>, ema |-> DefaultEma],
      [m |-> 1, k |-> <<2>>, ema |-> DecayDen] }
\* (BaseQuantizer builds its EntropyCoder(m, k) with the default ema)
QuantConfigs ==
    { [m |-> 1, k |-> <<4>>, ema |-> DefaultEma, trained |-> FALSE],
      [m |-> 1, k |-> <<4>>, ema |-> DefaultEma, trained |-> TRUE],
      [m |-> 2, k |-> <<3, 2>>, ema |-> DefaultEma, trained |-> FALSE] }
RefreshConfigs ==
    { [m |-> 1, k |-> <<6>>, ema |-> DefaultEma],
      [m |-> 2, k |-> <<4, 2>>, ema |-> DefaultEma] }

\* the runs whose batches are never empty keep every histogram total above
\* zero: no NaN is ever converted in them
NoNan == Null

\* ------------------------------------------------------------------- init
\* everything but the coders and the networks
InitBase(ws, cf) ==
    /\ world = ws
    /\ m = cf.m
    /\ k = cf.k
    /\ decay = DecayDen - cf.ema
    /\ rng = [w \in ws |-> 0]
    /\ calls = [w \in ws |-> [reassign |-> 0, sync |-> 0]]
    /\ bcast = <<>>
    /\ pc = [w \in ws |-> "idle"]
    /\ job = [w \in ws |-> Null]
    /\ rounds = <<>>
    /\ fwdLog = [w \in ws |-> <<>>]
    /\ sent = Null
    /\ got = Null
    /\ relog = [w \in ws |-> [re |-> Null, syncIn |-> <<>>, syncOut |-> <<>>]]

\* freshly constructed coders
InitWith(ws, cf) ==
    /\ InitBase(ws, cf)
    /\ coder = [w \in ws |-> NewCoder(cf.m, cf.k)]
    /\ nets = Null

\* one process with an entropy coder
InitCoder ==
    \E cf \in CoderConfigs :
        /\ InitWith({0}, cf)
        /\ nanCast = NoNan
        /\ codebook = [w \in {0} |-> Null]
        /\ feed = CoderFeed(cf.m, cf.k)
        /\ arg \in CoderArgs(cf.m, cf.k)

\* one process with an entropy coder whose batches may be empty
InitCache ==
    \E cf \in CacheConfigs :
        /\ InitWith({0}, cf)
        /\ nanCast \in NanCasts
        /\ codebook = [w \in {0} |-> Null]
        /\ feed = CacheFeed(cf.m, cf.k)
        /\ arg \in CacheArgs(cf.m, cf.k)

\* NumWorkers processes that train: only forward runs
InitDist ==
    \E cf \in DistConfigs :
        /\ InitWith(0..(NumWorkers - 1), cf)
        /\ nanCast = NoNan
        /\ codebook = [w \in 0..(NumWorkers - 1) |-> Null]
        /\ feed = DistFeed(cf.m, cf.k)
        /\ arg = Null

\* NumWorkers processes with a quantizer each, new or trained; every process
\* draws its own initial codebooks
InitQuant ==
    \E cf \in QuantConfigs :
        /\ InitBase(0..(NumWorkers - 1), cf)
        /\ nets = Null
        /\ nanCast = NoNan
        /\ coder = [w \in 0..(NumWorkers - 1) |->
                        IF cf.trained
                        THEN [NewCoder(cf.m, cf.k) EXCEPT
                                !.freqEMA = TrainedHist(cf.m, cf.k, QuantDead, TRUE)]
                        ELSE NewCoder(cf.m, cf.k)]
        /\ codebook = [w \in 0..(NumWorkers - 1) |-> NewCodebook(cf.m, cf.k, w)]
        /\ feed = QuantFeed(cf.m)
        /\ arg \in QuantArgs(cf.m)

\* NumWorkers processes whose quantizers have been trained: the histograms
\* (equal on every rank, they are all-reduced) have dead entries, the codebooks
\* differ from rank to rank
InitRefresh ==
    \E cf \in RefreshConfigs, dead \in 0..MaxDead, deadFirst \in BOOLEAN, close \in BOOLEAN :
        /\ InitBase(0..(NumWorkers - 1), cf)
        /\ nets = Null
        /\ nanCast = NoNan
        /\ coder = [w \in 0..(NumWorkers - 1) |->
                        [NewCoder(cf.m, cf.k) EXCEPT
                            !.freqEMA = TrainedHist(cf.m, cf.k, dead, deadFirst)]]
        /\ codebook = [w \in 0..(NumWorkers - 1) |->
                        IF close THEN CloseCodebook(cf.m, cf.k, w)
                        ELSE NewCodebook(cf.m, cf.k, w)]
        /\ feed = QuantFeed(cf.m)
        /\ arg = Null

\* ---------------------------------------------------------------- forward
\* the all-reduce call number of level lv of this worker's current forward
RoundOf(w, lv) == (Len(fwdLog[w]) - 1) * Len(k) + lv

\* dist.all_reduce(totalCount): hand in the local count
Contribute(rs, r, w, cnt) ==
    IF r > Len(rs)
    THEN Append(rs, [v \in world |-> IF v = w THEN cnt ELSE Null])
    ELSE [rs EXCEPT ![r][w] = cnt]

\* every rank has handed in its count of round r
AllReduceReady(r) == r <= Len(rounds) /\ \A v \in world : rounds[r][v] # Null

RECURSIVE SumOver(_, _, _, _)
SumOver(rd, ws, g, e) ==
    IF ws = {} THEN 0
    ELSE LET v == CHOOSE u \in ws : TRUE
         IN  rd[v][g][e] + SumOver(rd, ws \ {v}, g, e)

\* an all_reduce that leaves each rank with its own count
AllReduceLocal(r, w) == rounds[r][w]

\* the sum the call leaves in worker w's totalCount
AllReduceSum(r, w) ==
    ToList([g \in 1..Len(rounds[r][w]) |-> ToList([e \in 1..Len(rounds[r][w][g]) |->
        SumOver(rounds[r], world, g, e)])])

\* EntropyCoder.forward(oneHotCodes), up to its first all_reduce
ForwardEnter(w, codes) ==
    /\ fwdLog' = [fwdLog EXCEPT ![w] = Append(@, [codes |-> codes, before |-> coder[w].freqEMA])]
    /\ job' = [job EXCEPT ![w] = [codes |-> codes, lv |-> 1]]
    /\ rounds' = Contribute(rounds, Len(fwdLog[w]) * Len(k) + 1, w, TotalCount(codes[1], k[1]))
    /\ pc' = [pc EXCEPT ![w] = "all_reduce"]

\* a training step that calls the entropy coder with the codes of a batch
ForwardCall(w) ==
    /\ pc[w] = "idle"
    /\ Len(fwdLog[w]) < MaxForward
    /\ \E codes \in feed : ForwardEnter(w, codes)
    /\ UNCHANGED <<nanCast, nets, relog, world, m, k, decay, coder, codebook, rng, calls, bcast, feed, arg, sent, got>>

\* UMGMQuantizer.forward(x), up to the first all_reduce of self._entropyCoder(oneHots)
QForwardCall(w) ==
    /\ pc[w] = "idle"
    /\ Len(fwdLog[w]) < MaxTrain
    /\ \E x \in feed, draw \in Draws :
            \E codes \in {UMGMForward(codebook[w], x, draw)} : ForwardEnter(w, codes)
    /\ rng' = [rng EXCEPT ![w] = @ + 1]
    /\ UNCHANGED <<nanCast, nets, relog, world, m, k, decay, coder, codebook, calls, bcast, feed, arg, sent, got>>

\* all_reduce returns: blend the level, then go on to the next level's
\* all_reduce, or leave the loop and mark the tables stale
ForwardBlend(w) ==
    /\ pc[w] = "all_reduce"
    /\ AllReduceReady(RoundOf(w, job[w].lv))
    /\ LET lv == job[w].lv
           ema == EmaBlend(decay, AllReduceSum(RoundOf(w, lv), w), coder[w].freqEMA[lv])
       IN  IF lv < Len(job[w].codes)
           THEN /\ coder' = [coder EXCEPT ![w].freqEMA[lv] = ema]
                /\ job' = [job EXCEPT ![w].lv = lv + 1]
                /\ rounds' = Contribute(rounds, RoundOf(w, lv + 1), w,
                                        TotalCount(job[w].codes[lv + 1], k[lv + 1]))
                /\ pc' = pc
           ELSE /\ coder' = [coder EXCEPT ![w].freqEMA[lv] = ema, ![w].needUpdate = TRUE]
                /\ job' = [job EXCEPT ![w] = Null]
                /\ rounds' = rounds
                /\ pc' = [pc EXCEPT ![w] = "idle"]
    /\ UNCHANGED <<nanCast, nets, relog, world, m, k, decay, codebook, rng, calls, bcast, fwdLog, feed, arg, sent, got>>

\* --------------------------------------------------- compress, decompress
\* EntropyCoder.compress(codes)
Compress(w) ==
    /\ pc[w] = "idle"
    /\ \E r \in {CompressOp(coder[w], k, arg)} :
           /\ coder' = [coder EXCEPT ![w] = r.coder]
           /\ sent' = [w |-> w, codes |-> arg, raised |-> r.raised, binaries |-> r.binaries,
                       codeSizes |-> r.codeSizes, encoded |-> r.encoded,
                       before |-> coder[w], after |-> r.coder, nfwd |-> Len(fwdLog[w])]
    /\ got' = Null
    /\ UNCHANGED <<nanCast, nets, relog, world, m, k, decay, codebook, rng, calls, bcast, pc, job, rounds, fwdLog,
                   feed, arg>>

\* EntropyCoder.decompress(binaries, codeSizes) on what the last compress returned
Decompress(w) ==
    /\ pc[w] = "idle"
    /\ sent # Null
    /\ sent.w = w
    /\ sent.raised = "ok"
    /\ \E pad \in PadBytes :
        \E r \in {DecompressOp(coder[w], k, sent.binaries, sent.codeSizes, pad)} :
            /\ coder' = [coder EXCEPT ![w] = r.coder]
            /\ got' = [codes |-> r.codes, nfwd |-> Len(fwdLog[w])]
    /\ UNCHANGED <<nanCast, nets, relog, world, m, k, decay, codebook, rng, calls, bcast, pc, job, rounds, fwdLog,
                   feed, arg, sent>>

\* BaseQuantizer.compress(x)
QCompress(w) ==
    /\ w = 0
    /\ pc[w] = "idle"
    /\ rng' = rng
    /\ \E r \in {QCompressOp(codebook[w], coder[w], k, arg)} :
           /\ coder' = [coder EXCEPT ![w] = r.coder]
           /\ sent' = [w |-> w, x |-> arg, codes |-> r.codes, raised |-> r.raised,
                       binaries |-> r.binaries, codeSizes |-> r.codeSizes,
                       encoded |-> r.encoded, before |-> coder[w], after |-> r.coder,
                       nfwd |-> Len(fwdLog[w]), codebook |-> codebook[w],
                       rngBefore |-> rng[w], rngAfter |-> rng'[w]]
    /\ got' = Null
    /\ UNCHANGED <<nanCast, nets, relog, world, m, k, decay, codebook, calls, bcast, pc, job, rounds, fwdLog,
                   feed, arg>>

\* BaseQuantizer.decompress(binaries, codeSize) on what the last compress returned
QDecompress(w) ==
    /\ pc[w] = "idle"
    /\ sent # Null
    /\ sent.w = w
    /\ sent.raised = "ok"
    /\ \E pad \in PadBytes :
        \E r \in {QDecompressOp(codebook[w], coder[w], k, sent.binaries, sent.codeSizes,
                                pad)} :
            /\ coder' = [coder EXCEPT ![w] = r.coder]
            /\ got' = [codes |-> r.decompressed, raised |-> r.raised,
                       restored |-> r.restored, nfwd |-> Len(fwdLog[w])]
    /\ UNCHANGED <<nanCast, nets, relog, world, m, k, decay, codebook, rng, calls, bcast, pc, job, rounds, fwdLog,
                   feed, arg, sent>>

\* ------------------------------------------------------- codebook refresh
\* UMGMQuantizer.reAssignCodebook()
ReAssign(w) ==
    /\ pc[w] = "idle"
    /\ calls[w].reassign < MaxRefresh
    /\ \E perm \in Perms, tie \in Ties :
        \E r \in {UMGMReAssign(codebook[w], NormalizedFreq(coder[w]), perm, tie)} :
            /\ codebook' = [codebook EXCEPT ![w] = r.codebook]
            /\ relog' = [relog EXCEPT ![w].re =
                            [before |-> codebook[w], after |-> r.codebook,
                             freqs |-> NormalizedFreq(coder[w]),
                             locals |-> r.locals, proportion |-> r.proportion]]
    /\ calls' = [calls EXCEPT ![w].reassign = @ + 1]
    /\ rng' = [rng EXCEPT ![w] = @ + 1]
    /\ UNCHANGED <<nanCast, nets, world, m, k, decay, coder, bcast, pc, job, rounds, fwdLog,
                   feed, arg, sent, got>>

\* UMGMQuantizer.syncCodebook(): enter dist.barrier()
SyncCall(w) ==
    /\ pc[w] = "idle"
    /\ calls[w].sync < MaxRefresh
    /\ calls' = [calls EXCEPT ![w].sync = @ + 1]
    /\ pc' = [pc EXCEPT ![w] = "barrier"]
    /\ relog' = [relog EXCEPT ![w].syncIn = Append(@, codebook[w])]
    /\ UNCHANGED <<nanCast, nets, world, m, k, decay, coder, codebook, rng, bcast, job, rounds,
                   fwdLog, feed, arg, sent, got>>

\* a barrier that lets a rank through as soon as it arrives
BarrierOpenAlone(w) == TRUE

\* dist.barrier() returns for rank w: every rank has entered the barrier of this sync
BarrierOpen(w) == \A v \in world : calls[v].sync >= calls[w].sync

\* the barrier opens once every rank has entered it; then dist.broadcast(codebook, 0)
\* for each level: rank 0 sends its codebooks, the others wait for them and
\* copy them in
SyncBroadcast(w) ==
    /\ pc[w] = "barrier"
    /\ BarrierOpen(w)
    /\ IF w = 0
       THEN /\ bcast' = Append(bcast, codebook[0])
            /\ codebook' = codebook
       ELSE /\ Len(bcast) >= calls[w].sync
            /\ codebook' = [codebook EXCEPT ![w] = bcast[calls[w].sync]]
            /\ bcast' = bcast
    /\ relog' = [relog EXCEPT ![w].syncOut = Append(@, codebook'[w])]
    /\ pc' = [pc EXCEPT ![w] = "idle"]
    /\ UNCHANGED <<nanCast, nets, world, m, k, decay, coder, rng, calls, job, rounds, fwdLog,
                   feed, arg, sent, got>>

\* ------------------------------------------------------- specifications
DoForwardCall == \E w \in world : ForwardCall(w)
DoForwardBlend == \E w \in world : ForwardBlend(w)
DoCompress == \E w \in world : Compress(w)
DoDecompress == \E w \in world : Decompress(w)
DoQForwardCall == \E w \in world : QForwardCall(w)
DoQCompress == \E w \in world : QCompress(w)
DoQDecompress == \E w \in world : QDecompress(w)
DoReAssign == \E w \in world : ReAssign(w)
DoSyncCall == \E w \in world : SyncCall(w)
DoSyncBroadcast == \E w \in world : SyncBroadcast(w)

\* one process: EntropyCoder.forward, compress, decompress in any order
NextCoder == DoForwardCall \/ DoForwardBlend \/ DoCompress \/ DoDecompress
SpecCoder == InitCoder /\ [][NextCoder]_vars

\* the same process fed with empty and non-empty batches
SpecCache == InitCache /\ [][NextCoder]_vars

\* the workers of a training run, each calling EntropyCoder.forward
NextDist == DoForwardCall \/ DoForwardBlend
SpecDist == InitDist /\ [][NextDist]_vars

\* the workers' quantizers: forward, reAssignCodebook and syncCodebook in any
\* order on every rank; rank 0 (the rank that validates) also compresses and
\* decompresses
NextQuant ==
    \/ DoQForwardCall \/ DoForwardBlend \/ DoQCompress \/ DoQDecompress
    \/ DoReAssign \/ DoSyncCall \/ DoSyncBroadcast
SpecQuant == InitQuant /\ [][NextQuant]_vars

\* the trained quantizers of a run: forward, reAssignCodebook and syncCodebook
\* in any order on every rank
NextRefresh == DoQForwardCall \/ DoForwardBlend \/ DoReAssign \/ DoSyncCall \/ DoSyncBroadcast
SpecRefresh == InitRefresh /\ [][NextRefresh]_vars

\* ================================================================ properties
\* the usage histogram of worker w
Hist(w) == coder[w].freqEMA

\* forward call j of worker w has returned
ForwardDone(w, j) == j < Len(fwdLog[w]) \/ (j = Len(fwdLog[w]) /\ pc[w] = "idle")

\* the histogram worker w held when its forward call j returned
HistAfter(w, j) == IF j < Len(fwdLog[w]) THEN fwdLog[w][j + 1].before ELSE Hist(w)

\* worker w has blended level l of its forward call j into its histogram
Blended(w, j, l) ==
    \/ ForwardDone(w, j)
    \/ j = Len(fwdLog[w]) /\ pc[w] = "all_reduce" /\ job[w].lv > l

\* the positions of forward call j, over all workers, that level l assigns to
\* entry e - 1 of group g
AssignedTo(j, l, g, e) ==
    {p \in world \X (1..MaxN) \X (1..MaxH) \X (1..MaxW) :
        /\ p[2] <= fwdLog[p[1]][j].codes[l].shape[1]
        /\ p[3] <= fwdLog[p[1]][j].codes[l].shape[3]
        /\ p[4] <= fwdLog[p[1]][j].codes[l].shape[4]
        /\ fwdLog[p[1]][j].codes[l].data[p[2]][g][p[3]][p[4]] = e - 1}

\* image i of a list of codes as a batch of one
Alone(codes, i) ==
    ToList([l \in 1..Len(codes) |->
        [shape |-> <<1, codes[l].shape[2], codes[l].shape[3], codes[l].shape[4]>>,
         data |-> <<codes[l].data[i]>>]])

\* C1: decompress(compress(codes)) returns the codes element for element when
\* no forward ran between the two calls, for every m, K, h, w of the runs,
\* K = 1 and h = w = 1 included
C1_RoundTrip ==
    (got # Null /\ got.nfwd = sent.nfwd) => got.codes = sent.codes

\* a round trip of MaxN different images of MaxH x MaxW over two levels, made
\* after the histogram has been updated
C1_Witness ==
    /\ got # Null
    /\ got.nfwd = sent.nfwd
    /\ sent.nfwd > 0
    /\ Len(k) = 2
    /\ sent.codes[1].shape = <<MaxN, m, MaxH, MaxW>>
    /\ sent.codes[1].data[1] # sent.codes[1].data[MaxN]
    /\ got.codes = sent.codes

\* C2: for every image and level the index, cdfSizes and offsets arrays that
\* decompress rebuilds from the CodeSize header and K are the ones compress
\* handed to the encoder: index[j] = j div (h * w) (j from 0), cdfSizes is
\* K + 2 repeated m times, offsets are zero, index and offsets have m * h * w
\* entries
C2_SameArrays ==
    (sent # Null /\ sent.raised = "ok") =>
        \A i \in 1..Len(sent.codeSizes) : \A l \in 1..Len(sent.binaries[i]) :
            LET cs == sent.codeSizes[i]
                h == cs.heights[l]
                w == cs.widths[l]
                code == sent.codes[l]
                idx == DecompressIdx(cs.m, cs, h, w)
                off == DecompressOffsets(cs, h, w)
                sizes == DecompressCdfSizes(cs, k[l])
            IN  /\ idx = CompressIdx(code.shape[2], code.data[i], code.shape[3], code.shape[4])
                /\ sizes = CompressCdfSizes(code.shape[2], k[l])
                /\ off = CompressOffsets(code.shape[2], code.data[i], code.shape[3],
                                         code.shape[4])
                /\ Len(idx) = cs.m * h * w
                /\ Len(off) = cs.m * h * w
                /\ \A j \in 1..Len(idx) : idx[j] = (j - 1) \div (h * w) /\ off[j] = 0
                /\ Len(sizes) = cs.m
                /\ \A g \in 1..Len(sizes) : sizes[g] = k[l] + 2

\* a batch of two groups and several positions went through compress and
\* decompress
C2_Witness ==
    /\ got # Null
    /\ m = 2
    /\ Len(k) = 2
    /\ sent.codes[1].shape = <<MaxN, m, MaxH, MaxW>>
    /\ DecompressIdx(m, sent.codeSizes[1], MaxH, MaxW)[MaxH * MaxW + 1] = 1

C4_SelfCheck ==
    (got # Null /\ got.codes # sent.codes) => got.raised # "ok"

\* C5: compress raises RuntimeError before it encodes a symbol, returns no
\* binary and leaves the coder as it was, when the list of codes is empty,
\* when n is 0, or when a level's n or m differs from those of the first level
C5_FailFast ==
    (/\ sent # Null
     /\ \/ Len(sent.codes) = 0
        \/ sent.codes[1].shape[1] = 0
        \/ \E l \in 1..Len(sent.codes) :
                \/ sent.codes[l].shape[1] # sent.codes[1].shape[1]
                \/ sent.codes[l].shape[2] # sent.codes[1].shape[2])
    => /\ sent.raised \in {"RuntimeError: length of codes is 0", "RuntimeError: n = 0",
                           "RuntimeError: m is inconsistent",
                           "RuntimeError: n is inconsistent"}
       /\ sent.encoded = 0
       /\ sent.binaries = <<>>
       /\ sent.codeSizes = <<>>
       /\ sent.after = sent.before

\* compress was handed an empty batch (n = 0) and raised
C5_Witness ==
    /\ sent # Null
    /\ Len(sent.codes) > 0
    /\ sent.codes[1].shape[1] = 0
    /\ sent.raised = "RuntimeError: n = 0"

\* C6: compress draws nothing from the generator, and its codes, binaries and
\* headers are those of any other compress call on the same feature tensor
\* with the same codebooks and the same histogram
C6_Deterministic ==
    sent # Null =>
        /\ sent.rngAfter = sent.rngBefore
        /\ LET again == QCompressOp(sent.codebook,
                                    [freqEMA |-> sent.before.freqEMA, cdfs |-> Null,
                                     freq |-> Null, needUpdate |-> TRUE],
                                    k, sent.x)
           IN  /\ again.raised = sent.raised
               /\ again.codes = sent.codes
               /\ again.binaries = sent.binaries
               /\ again.codeSizes = sent.codeSizes

\* a compress call made after an earlier compress had cached its tables and a
\* forward with sampling had then changed the histogram
C6_Witness ==
    /\ sent # Null
    /\ sent.raised = "ok"
    /\ sent.before.cdfs # Null
    /\ sent.nfwd > 0
    /\ sent.rngBefore > 0
    /\ sent.before.freqEMA # NewCoder(m, k).freqEMA
    /\ sent.after.cdfs # sent.before.cdfs

\* C7: a compress or decompress step changes no codebook and no histogram;
\* a worker's codebook changes only in a step of its reAssignCodebook or of
\* its syncCodebook, its histogram only in a step of its forward
C7_Frame ==
    [][/\ (sent' # sent \/ got' # got) =>
            /\ codebook' = codebook
            /\ \A w \in world : coder'[w].freqEMA = coder[w].freqEMA
       /\ \A w \in world :
            /\ codebook'[w] # codebook[w] =>
                \/ calls'[w].reassign = calls[w].reassign + 1
                \/ pc[w] = "barrier" /\ pc'[w] = "idle"
            /\ coder'[w].freqEMA # coder[w].freqEMA => pc[w] = "all_reduce"]_vars

\* compress and decompress have run on a worker whose histogram a forward
\* changed and whose codebook a reassignment changed, and a sync has replaced
\* the codebook of another worker
C7_Witness ==
    /\ got # Null
    /\ Hist(0) # NewCoder(m, k).freqEMA
    /\ calls[0].reassign > 0
    /\ codebook[0] # NewCodebook(m, k, 0)
    /\ \E w \in world : w # 0 /\ calls[w].sync > 0 /\ pc[w] = "idle"
                            /\ codebook[w] = codebook[0]

\* C8: the byte strings and the header compress returns for image i of a
\* batch are those it returns for image i alone under the same tables
C8_BatchIndependent ==
    (sent # Null /\ sent.raised = "ok") =>
        \A i \in 1..Len(sent.binaries) :
            LET alone == CompressOp(sent.before, k, Alone(sent.codes, i))
            IN  /\ alone.raised = "ok"
                /\ alone.binaries = <<sent.binaries[i]>>
                /\ alone.codeSizes = <<sent.codeSizes[i]>>

\* a batch of MaxN images whose last image differs from the first and gets
\* other bytes
C8_Witness ==
    /\ sent # Null
    /\ sent.raised = "ok"
    /\ Len(sent.binaries) = MaxN
    /\ sent.codes[1].data[MaxN] # sent.codes[1].data[1]
    /\ sent.binaries[MaxN] # sent.binaries[1]

\* C9: after a forward call every histogram value is d * c + (1 - d) * p, p
\* the value before the call, c the number of positions of all workers the
\* level assigns to the entry, d = 1 - ema; d = 0 leaves the histogram as it
\* was, d = 1 replaces it by c.  (Values are in units of 1 / Unit, d in
\* units of 1 / DecayDen.)
C9_EmaFormula ==
    \A w \in world : \A j \in 1..Len(fwdLog[w]) :
        ForwardDone(w, j) =>
            /\ \A l \in 1..Len(k) : \A g \in 1..m : \A e \in 1..k[l] :
                LET c == Cardinality(AssignedTo(j, l, g, e))
                    p == fwdLog[w][j].before[l][g][e]
                    v == HistAfter(w, j)[l][g][e]
                IN  /\ v * DecayDen = decay * c * Unit + (DecayDen - decay) * p
                    /\ decay = DecayDen => v = c * Unit
            /\ decay = 0 => HistAfter(w, j) = fwdLog[w][j].before

\* two workers finished a forward with 0 < d < 1 that moved the histogram
\* away from its start
C9_Witness ==
    /\ \A w \in world : Len(fwdLog[w]) > 0 /\ ForwardDone(w, Len(fwdLog[w]))
    /\ decay > 0
    /\ decay < DecayDen
    /\ Cardinality(world) > 1
    /\ Hist(0) # NewCoder(m, k).freqEMA
    /\ \E v \in world : fwdLog[v][1].codes # fwdLog[0][1].codes

\* C10: no worker has blended a level of a forward call before every worker
\* handed its count of that level to the all-reduce, and workers that have
\* finished the same forward calls hold the same histograms
C10_AllReduceFirst ==
    /\ \A w \in world : \A j \in 1..Len(fwdLog[w]) : \A l \in 1..Len(k) :
            Blended(w, j, l) =>
                /\ (j - 1) * Len(k) + l <= Len(rounds)
                /\ \A v \in world :
                    /\ rounds[(j - 1) * Len(k) + l][v] # Null
                    /\ Len(fwdLog[v]) >= j
                    /\ rounds[(j - 1) * Len(k) + l][v] = TotalCount(fwdLog[v][j].codes[l], k[l])
    /\ \A w \in world : \A v \in world :
            (pc[w] = "idle" /\ pc[v] = "idle" /\ Len(fwdLog[w]) = Len(fwdLog[v]))
                => Hist(w) = Hist(v)

\* one worker has blended the first of two levels while the other has not
\* yet done so, the two having counted different batches
C10_Witness ==
    /\ Cardinality(world) > 1
    /\ Len(k) = 2
    /\ \E w \in world : \E v \in world :
        /\ pc[w] = "all_reduce" /\ job[w].lv = 2
        /\ pc[v] = "all_reduce" /\ job[v].lv = 1
        /\ fwdLog[w][1].codes # fwdLog[v][1].codes
        /\ Hist(w) # Hist(v)

\* ------------------------------------------------------- tables and cache
\* the tables CDFs builds from a histogram
TablesOf(fe) == CdfsOf(FreqOf(fe))

\* the levels and groups of a histogram whose total is zero
ZeroGroups(fe) ==
    {lg \in (1..Len(fe)) \X (1..m) : lg[1] <= Len(fe) /\ SumSeq(fe[lg[1]][lg[2]]) = 0}

C12_UniformFallback ==
    (sent # Null /\ CheckShape(sent.codes) = "ok") =>
        /\ sent.raised = "ok"
        /\ \A lg \in ZeroGroups(sent.before.freqEMA) :
            LET c == sent.after.cdfs[lg[1]][lg[2]]
                K == k[lg[1]]
            IN  /\ c[1] = 0
                /\ c[K + 1] = FreqScale
                /\ \A e \in 1..K : c[e + 1] - c[e] \in {FreqScale \div K, FreqScale \div K + 1}

\* a compress that read the tables of a histogram emptied by a forward over an
\* empty batch, K = 3 (2^16 is not a multiple of 3), NaN converted to the least integer
C12_Witness ==
    /\ sent # Null
    /\ sent.raised = "ok"
    /\ sent.nfwd > 0
    /\ ZeroGroups(sent.before.freqEMA) # {}
    /\ k = <<3>>
    /\ nanCast = LongMin
    /\ sent.after.cdfs[1][1] = <<0, 21845, 43690, 65536>>

\* C17: once CDFs has been read, a further read with no forward in between
\* is served from the cache, without recomputing the tables
C17_LazyRebuild ==
    \A w \in world :
        (/\ sent # Null
         /\ sent.w = w
         /\ sent.raised = "ok"
         /\ pc[w] = "idle"
         /\ Len(fwdLog[w]) = sent.nfwd) => CacheHit(coder[w])

\* C18: every read of CDFs returns the tables of the histogram as it is at
\* the time of the read, whatever forward calls and reads came before
C18_FreshTables ==
    /\ (sent # Null /\ sent.raised = "ok") =>
            sent.after.cdfs = TablesOf(sent.before.freqEMA)
    /\ \A w \in world :
        (got # Null /\ sent.w = w /\ pc[w] = "idle" /\ Len(fwdLog[w]) = got.nfwd) =>
            coder[w].cdfs = TablesOf(coder[w].freqEMA)

\* a decompress that read the tables after a forward had changed the
\* histogram the preceding compress had read
C18_Witness ==
    /\ got # Null
    /\ got.nfwd > sent.nfwd
    /\ pc[sent.w] = "idle"
    /\ Len(fwdLog[sent.w]) = got.nfwd
    /\ sent.before.freqEMA # coder[sent.w].freqEMA
    /\ coder[sent.w].cdfs # sent.after.cdfs

\* ------------------------------------------------------- codebook refresh
\* the last reAssignCodebook call of worker w
Re(w) == relog[w].re

\* the (level, group) pairs of a reAssignCodebook call
Groups(r) == {lg \in (1..Len(k)) \X (1..m) : lg[1] <= Len(r.locals)}

\* the prior usage of entry e is at least epsilon
AtLeastEps(fg, e) == fg.den > 0 /\ fg.num[e] >= (fg.den + EpsInv - 1) \div EpsInv

\* the entries of a group whose prior usage is below epsilon
BelowEps(fg) == {e \in 1..Len(fg.num) : ~AtLeastEps(fg, e)}

\* the number of entries of the group used more often than entry e
Rank(fg, e) == Cardinality({f \in 1..Len(fg.num) : fg.num[f] > fg.num[e]})

\* the entries (level, group, entry) of a call; those whose embedding differs
\* after the call; those it moved by more than the threshold of diff
AllEntries(r) ==
    {p \in (1..Len(k)) \X (1..m) \X (1..SumSeq(k)) : p[3] <= k[p[1]]}
ChangedEntries(r) ==
    {p \in AllEntries(r) : r.after[p[1]][p[2]][p[3]] # r.before[p[1]][p[2]][p[3]]}
MovedEntries(r) ==
    {p \in AllEntries(r) : Diff(r.after[p[1]][p[2]][p[3]], r.before[p[1]][p[2]][p[3]])}

\* C13: reAssignCodebook keeps the codebook shape (M, K, D) and leaves every
\* entry whose prior usage is at least epsilon as it was
C13_ReassignFrame ==
    \A w \in world : Re(w) # Null =>
        /\ Len(Re(w).after) = Len(k)
        /\ \A l \in 1..Len(k) :
            /\ Len(Re(w).after[l]) = m
            /\ \A g \in 1..m :
                /\ Len(Re(w).after[l][g]) = k[l]
                /\ \A e \in 1..k[l] :
                    /\ Len(Re(w).after[l][g][e]) = EmbedDim
                    /\ AtLeastEps(Re(w).freqs[l][g], e) =>
                            Re(w).after[l][g][e] = Re(w).before[l][g][e]

\* a call that rewrote entries of a group in which other entries were in use
C13_Witness ==
    \E w \in world :
        /\ Re(w) # Null
        /\ \E lg \in Groups(Re(w)) :
            /\ \E e \in 1..k[lg[1]] : AtLeastEps(Re(w).freqs[lg[1]][lg[2]], e)
            /\ \E e \in 1..k[lg[1]] :
                Re(w).after[lg[1]][lg[2]][e] # Re(w).before[lg[1]][lg[2]][e]

\* C14 as claimed: the proportion returned is the number of entries whose
\* embedding the call changed over the number of entries, all levels and groups
C14_ProportionChanged ==
    \A w \in world : Re(w) # Null =>
        Re(w).proportion.num * Cardinality(AllEntries(Re(w)))
            = Cardinality(ChangedEntries(Re(w))) * Re(w).proportion.den

\* C14 as amended: the proportion returned is the number of entries whose
\* embedding the call moved by more than 1e-4 in squared distance over the
\* number of entries, all levels and groups
C14_ProportionDiff ==
    \A w \in world : Re(w) # Null =>
        Re(w).proportion.num * Cardinality(AllEntries(Re(w)))
            = Cardinality(MovedEntries(Re(w))) * Re(w).proportion.den

\* a call over two levels of different K that moved some entries, not all
C14_Witness ==
    \E w \in world :
        /\ Re(w) # Null
        /\ Len(k) = 2
        /\ k[1] # k[2]
        /\ Re(w).proportion.num > 0
        /\ Re(w).proportion.num < Re(w).proportion.den
        /\ \E l \in 1..2 : Re(w).after[l] = Re(w).before[l]

\* C15: no codebook is broadcast in a sync before every worker has entered
\* its barrier, and the codebooks a worker holds when its syncCodebook returns
\* are those worker 0 held when it entered that sync
C15_SyncEqual ==
    /\ \A s \in 1..Len(bcast) : \A v \in world : calls[v].sync >= s
    /\ \A w \in world : \A s \in 1..Len(relog[w].syncOut) :
        /\ \A v \in world : calls[v].sync >= s
        /\ relog[w].syncOut[s] = relog[0].syncIn[s]

\* every worker has returned from a sync that it entered with codebooks of its
\* own, worker 1 after a reassignment that rewrote them
C15_Witness ==
    /\ \A w \in world : Len(relog[w].syncOut) = 1 /\ codebook[w] = relog[0].syncIn[1]
    /\ Re(1) # Null
    /\ Re(1).after # Re(1).before
    /\ relog[1].syncIn[1] = Re(1).after
    /\ relog[1].syncIn[1] # relog[0].syncIn[1]

\* C19 as claimed: of the u never-assigned entries of a group, half (within
\* rounding) are protected and left as they were and the other half replaced
\* if u is more than half of K; none is protected if u is at most half of K
C19_ProtectHalfOfThem ==
    \A w \in world : Re(w) # Null =>
        \A lg \in Groups(Re(w)) :
            LET loc == Re(w).locals[lg[1]][lg[2]]
                K == k[lg[1]]
                u == Cardinality(BelowEps(Re(w).freqs[lg[1]][lg[2]]))
            IN  IF 2 * u > K
                THEN /\ Cardinality(loc.dropped) \in {u \div 2, (u + 1) \div 2}
                     /\ Len(loc.neverAssignedLoc) = u - Cardinality(loc.dropped)
                ELSE /\ loc.dropped = {}
                     /\ Len(loc.neverAssignedLoc) = u

\* C19 as amended: if u is more than half of K, all but K div 2 of the u
\* never-assigned entries are protected and left as they were and the other
\* K div 2 are replaced; if u is at most half of K none is protected and all
\* u are replaced
C19_ProtectAllButHalfOfK ==
    \A w \in world : Re(w) # Null =>
        \A lg \in Groups(Re(w)) :
            LET loc == Re(w).locals[lg[1]][lg[2]]
                K == k[lg[1]]
                dead == BelowEps(Re(w).freqs[lg[1]][lg[2]])
                u == Cardinality(dead)
                replaced == {loc.neverAssignedLoc[t] : t \in 1..Len(loc.neverAssignedLoc)}
            IN  /\ loc.dropped \subseteq dead
                /\ replaced = dead \ loc.dropped
                /\ \A e \in loc.dropped :
                        Re(w).after[lg[1]][lg[2]][e] = Re(w).before[lg[1]][lg[2]][e]
                /\ \A t \in 1..Len(loc.neverAssignedLoc) :
                        Re(w).after[lg[1]][lg[2]][loc.neverAssignedLoc[t]]
                            = Re(w).before[lg[1]][lg[2]][loc.argIdx[t]]
                /\ IF 2 * u > K
                   THEN Cardinality(loc.dropped) = u - K \div 2
                            /\ Cardinality(replaced) = K \div 2
                   ELSE loc.dropped = {} /\ Cardinality(replaced) = u

\* a group of 6 entries, 4 of them never assigned: 1 is protected, 3 are replaced
C19_Witness ==
    \E w \in world :
        /\ Re(w) # Null
        /\ k = <<6>>
        /\ Cardinality(BelowEps(Re(w).freqs[1][1])) = 4
        /\ Cardinality(Re(w).locals[1][1].dropped) = 1
        /\ Len(Re(w).locals[1][1].neverAssignedLoc) = 3

\* C20: the r entries selected for replacement receive, in slot order, the
\* pre-call embeddings of the r most-used entries of the group by descending
\* usage, and every source is an entry whose usage is at least epsilon, also
\* when fewer than r entries are in use
C20_SourcesAssigned ==
    \A w \in world : Re(w) # Null =>
        \A lg \in Groups(Re(w)) :
            LET loc == Re(w).locals[lg[1]][lg[2]]
                fg == Re(w).freqs[lg[1]][lg[2]]
                K == k[lg[1]]
                a == K - Cardinality(BelowEps(fg))
            IN  \A t \in 1..Len(loc.neverAssignedLoc) :
                    \E src \in 1..K :
                        /\ AtLeastEps(fg, src)
                        /\ t <= a => Rank(fg, src) = t - 1
                        /\ Re(w).after[lg[1]][lg[2]][loc.neverAssignedLoc[t]]
                                = Re(w).before[lg[1]][lg[2]][src]

\* ============================================== ResidualBackwardQuantizer
\* A network of the quantizer (latentStageEncoder, backward, restoreHead) is
\* taken as a map [mul, add, scale]: every value v becomes mul * v + add, after
\* ("down") the stride-2 block kept one position of each 2 x 2 block, before
\* ("up") the shuffle block spread each position over a 2 x 2 block, or at the
\* same size ("same").
RIdentity == [mul |-> 1, add |-> 0, scale |-> "same"]

\* the spatial part of a network
RScale(net, t) ==
    IF net.scale = "down"
    THEN [shape |-> <<t.shape[1], t.shape[2], t.shape[3] \div 2, t.shape[4] \div 2>>,
          data |-> ToList([i \in 1..t.shape[1] |-> ToList([c \in 1..t.shape[2] |->
                    ToList([y \in 1..(t.shape[3] \div 2) |-> ToList([x \in 1..(t.shape[4] \div 2) |->
                        t.data[i][c][2 * y - 1][2 * x - 1]])])])])]
    ELSE IF net.scale = "up"
    THEN [shape |-> <<t.shape[1], t.shape[2], t.shape[3] * 2, t.shape[4] * 2>>,
          data |-> ToList([i \in 1..t.shape[1] |-> ToList([c \in 1..t.shape[2] |->
                    ToList([y \in 1..(t.shape[3] * 2) |-> ToList([x \in 1..(t.shape[4] * 2) |->
                        t.data[i][c][(y + 1) \div 2][(x + 1) \div 2]])])])])]
    ELSE t

\* net(t)
RApply(net, t) ==
    LET s == RScale(net, t)
    IN  [shape |-> s.shape,
         data |-> ToList([i \in 1..s.shape[1] |-> ToList([c \in 1..s.shape[2] |->
                    ToList([y \in 1..s.shape[3] |-> ToList([x \in 1..s.shape[4] |->
                        net.mul * s.data[i][c][y][x] + net.add])])])])]

\* torch.zeros_like(t)
RZerosLike(t) ==
    [shape |-> t.shape,
     data |-> ToList([i \in 1..t.shape[1] |-> ToList([c \in 1..t.shape[2] |->
                ToList([y \in 1..t.shape[3] |-> ToList([x \in 1..t.shape[4] |-> 0])])])])]

\* the broadcast of b to the shape of a: b itself, b stretched along the
\* dimensions of size 1, or Null where torch raises
RBroadcast(a, b) ==
    IF \A dd \in 1..4 : b.shape[dd] = a.shape[dd] THEN b
    ELSE IF \A dd \in 1..4 : b.shape[dd] \in {1, a.shape[dd]}
    THEN [shape |-> a.shape,
          data |-> ToList([i \in 1..a.shape[1] |-> ToList([c \in 1..a.shape[2] |->
                    ToList([y \in 1..a.shape[3] |-> ToList([x \in 1..a.shape[4] |->
                        b.data[Min2(i, b.shape[1])][Min2(c, b.shape[2])]
                              [Min2(y, b.shape[3])][Min2(x, b.shape[4])]])])])])]
    ELSE Null

\* the networks __init__ builds for the size sequence: level i halves when
\* size[i] = lastSize // 2 and keeps the size when size[i] = lastSize, with
\* lastSize = size[0] * 2 at the first level; the backward of the last level
\* is nn.Identity()
RHalves(size, i) == IF i = 1 THEN TRUE ELSE 2 * size[i] = size[i - 1]
RBuild(size, par) ==
    [size |-> size,
     encoders |-> ToList([i \in 1..Len(size) |->
        [mul |-> par[i].enc, add |-> i - 1,
         scale |-> IF RHalves(size, i) THEN "down" ELSE "same"]]),
     backwards |-> ToList([i \in 1..Len(size) |->
        IF i < Len(size)
        THEN [mul |-> par[i].back, add |-> 0,
              scale |-> IF RHalves(size, i) THEN "up" ELSE "same"]
        ELSE RIdentity]),
     decoders |-> ToList([i \in 1..Len(size) |->
        [mul |-> par[i].dec, add |-> i,
         scale |-> IF RHalves(size, i) THEN "up" ELSE "same"]])]

\* a quantizer whose networks were all replaced by the identity
RIdentityHeads(size) ==
    [size |-> size,
     encoders |-> ToList([i \in 1..Len(size) |-> RIdentity]),
     backwards |-> ToList([i \in 1..Len(size) |-> RIdentity]),
     decoders |-> ToList([i \in 1..Len(size) |-> RIdentity])]

\* s[::-1]
RReversed(s) == ToList([j \in 1..Len(s) |-> s[Len(s) + 1 - j]])

\* for encoder in self._encoders: x = encoder(x); allLatents.append(x)
RECURSIVE RAllLatents(_, _, _)
RAllLatents(encoders, x, i) ==
    IF i > Len(encoders) THEN <<>>
    ELSE Only({<<z>> \o RAllLatents(encoders, z, i + 1) : z \in {RApply(encoders[i], x)}})

\* the loop of encode over zip(quantizers[::-1], dequantizers[::-1],
\* backwards[::-1], allLatents[::-1]); every quantizer and dequantizer holds
\* the one codebook cbl
RECURSIVE REncodeLoop(_, _, _, _, _)
REncodeLoop(cbl, backwards, latents, j, currentLatent) ==
    IF j > Min2(Len(backwards), Len(latents)) THEN [codes |-> <<>>, raised |-> "ok"]
    ELSE IF RBroadcast(latents[j], currentLatent) = Null
    THEN [codes |-> <<>>, raised |-> "RuntimeError"]
    ELSE Only({ Only({[codes |-> <<code>> \o rest.codes, raised |-> rest.raised] :
                    rest \in {REncodeLoop(cbl, backwards, latents, j + 1,
                                          RApply(backwards[j], DequantDecode(cbl, code)))}}) :
                code \in {QuantEncode(cbl, TSub(latents[j], RBroadcast(latents[j], currentLatent)))}})

\* ResidualBackwardQuantizer.encode(x)
REncode(cbl, nn, x) ==
    Only({ Only({[latents |-> latents, codes |-> r.codes, raised |-> r.raised] :
                r \in {REncodeLoop(cbl, RReversed(nn.backwards), RReversed(latents), 1,
                                   RZerosLike(latents[Len(latents)]))}}) :
            latents \in {RAllLatents(nn.encoders, x, 1)}})

\* the order in which decode takes the decoders against the codes
RDecodersForward(decoders) == decoders
RDecoderOrder(decoders) == RReversed(decoders)

\* the loop of decode over zip(decoders[::-1], dequantizers[::-1], codes)
RECURSIVE RDecodeLoop(_, _, _, _, _)
RDecodeLoop(cbl, decoders, codes, j, formerLevel) ==
    IF j > Min2(Len(decoders), Len(codes)) THEN formerLevel
    ELSE Only({RDecodeLoop(cbl, decoders, codes, j + 1,
                    IF formerLevel = Null THEN RApply(decoders[j], quantized)
                    ELSE RApply(decoders[j], TAdd(quantized, formerLevel))) :
                quantized \in {DequantDecode(cbl, codes[j])}})

\* ResidualBackwardQuantizer.decode(codes)
RDecode(cbl, nn, codes) == RDecodeLoop(cbl, RDecoderOrder(nn.decoders), codes, 1, Null)

\* ------------------------------------------------------------- the runs
\* the number of entries of the shared codebook, and the largest seed of an input
ResidualK == 4
MaxInput == 5

\* the size sequences of the runs, the multipliers of the networks of a level
\* and the input x of a run: one image [1, channel, h, w]
RSizes == {<<2, 2>>, <<2, 1>>, <<4, 2>>, <<2, 2, 1>>, <<2, 1, 1>>}
RPars ==
    { [i \in 1..3 |-> [enc |-> 1, back |-> 1, dec |-> 1]],
      [i \in 1..3 |-> [enc |-> 1, back |-> 2, dec |-> i + 1]] }
RInput(hw, seed) ==
    [shape |-> <<1, EmbedDim, hw, hw>>,
     data |-> <<ToList([c \in 1..EmbedDim |-> ToList([y \in 1..hw |-> ToList([x \in 1..hw |->
                ((seed + 3 * y + 5 * x + seed * y * x) % 11) - 2])])])>>]

\* the quantizers of the runs: built by __init__, or with identity networks
\* (then no level changes the size)
RNets ==
    {RBuild(size, par) : size \in RSizes, par \in RPars}
        \cup {RIdentityHeads(size) : size \in {<<2, 2>>, <<2, 2, 2>>}}
RInputSize(nn) == IF nn.encoders[1].scale = "down" THEN 2 * nn.size[1] ELSE nn.size[1]

\* one process with a ResidualBackwardQuantizer(k, size): m = [1] * len(size),
\* k = [k] * len(size), one codebook parameter shared by every level
InitResidual ==
    \E nn \in RNets, seed \in 0..MaxInput :
        /\ InitBase({0}, [m |-> 1, k |-> ToList([l \in 1..Len(nn.size) |-> ResidualK]),
                          ema |-> DefaultEma])
        /\ nanCast = NoNan
        /\ nets = nn
        /\ coder = [w \in {0} |-> NewCoder(1, ToList([l \in 1..Len(nn.size) |-> ResidualK]))]
        /\ codebook = [w \in {0} |->
                ToList([l \in 1..Len(nn.size) |-> NewCodebook(1, <<ResidualK>>, 0)[1]])]
        /\ feed = {}
        /\ arg = RInput(RInputSize(nn), seed)

\* codes = quantizer.encode(x)
DoREncode ==
    /\ sent = Null
    /\ \E r \in {REncode(codebook[0][1], nets, arg)} :
        sent' = [w |-> 0, x |-> arg, latents |-> r.latents, codes |-> r.codes,
                 raised |-> r.raised]
    /\ UNCHANGED <<nanCast, nets, relog, world, m, k, decay, coder, codebook, rng, calls,
                   bcast, pc, job, rounds, fwdLog, feed, arg, got>>

\* xHat = quantizer.decode(codes) on the codes of the encode
DoRDecode ==
    /\ sent # Null
    /\ sent.raised = "ok"
    /\ got = Null
    /\ \E r \in {RDecode(codebook[0][1], nets, sent.codes)} :
        got' = [codes |-> sent.codes, raised |-> "ok", restored |-> r]
    /\ UNCHANGED <<nanCast, nets, relog, world, m, k, decay, coder, codebook, rng, calls,
                   bcast, pc, job, rounds, fwdLog, feed, arg, sent>>

NextResidual == DoREncode \/ DoRDecode
SpecResidual == InitResidual /\ [][NextResidual]_vars

\* ------------------------------------------------------------------ C16
\* the level (1 = largest, first built) that position j of the code list
\* belongs to when the list runs from the smallest latent to the largest
LevelOf(j) == Len(nets.size) + 1 - j

\* the dequantized code at position j of a code list
Dequant(codes, j) == DequantDecode(codebook[0][LevelOf(j)], codes[j])

\* what the encode subtracted before it quantized position j: zero at the
\* smallest latent, then the backward of the level before it in the list,
\* applied to that level's dequantized code (stretched where torch broadcasts)
Baseline(j) ==
    IF j = 1 THEN RZerosLike(sent.latents[LevelOf(1)])
    ELSE RBroadcast(sent.latents[LevelOf(j)],
                    RApply(nets.backwards[LevelOf(j - 1)], Dequant(sent.codes, j - 1)))

\* the output of the decoder that consumed position j of got.codes
RECURSIVE DecoderOut(_)
DecoderOut(j) ==
    IF j = 1 THEN RApply(nets.decoders[LevelOf(1)], Dequant(got.codes, 1))
    ELSE RApply(nets.decoders[LevelOf(j)], TAdd(Dequant(got.codes, j), DecoderOut(j - 1)))

\* C16: encode quantizes from the smallest (last) latent to the largest from a
\* zero baseline, so codes[0] is the code of the smallest latent; decode takes
\* the codes in that order, pairs codes[j] with the dequantizer and decoder of
\* the level that produced it, feeds the first decoder the dequantized code
\* alone and every other the sum of its dequantized code and the previous
\* decoder's output; with identity networks a 2-level decode is
\* dequant(level 1) + dequant(level 0)
C16_BackwardOrder ==
    /\ (sent # Null /\ sent.raised = "ok") =>
        /\ Len(sent.codes) = Len(nets.size)
        /\ sent.codes[1] = QuantEncode(codebook[0][Len(nets.size)],
                                       sent.latents[Len(nets.size)])
        /\ \A j \in 1..Len(sent.codes) :
            sent.codes[j] = QuantEncode(codebook[0][LevelOf(j)],
                                        TSub(sent.latents[LevelOf(j)], Baseline(j)))
    /\ got # Null =>
        /\ got.restored = DecoderOut(Len(got.codes))
        /\ (Len(nets.size) = 2 /\ \A i \in 1..2 : nets.decoders[i] = RIdentity) =>
            got.restored = TAdd(DequantDecode(codebook[0][2], got.codes[1]),
                                DequantDecode(codebook[0][1], got.codes[2]))

\* a decode of three levels of two sizes whose codes differ from level to
\* level and whose decoders differ from level to level
C16_Witness ==
    /\ got # Null
    /\ Len(nets.size) = 3
    /\ nets.size[3] < nets.size[1]
    /\ nets.decoders[1] # nets.decoders[3]
    /\ got.codes[1].shape # got.codes[3].shape
    /\ \E j \in 2..3 : \E e \in 1..ResidualK :
            got.codes[j].data[1][1][1][1] = e - 1 /\ got.codes[1].data[1][1][1][1] # e - 1

\* =================================================== the levels of UMGM
\* latentHead = latentHeadFn() if i < len(k) - 1 else None, and the same for
\* sideHead: level i (1-based) of L has them unless it is the last
HasHeadAll(L, i) == TRUE
HasHead(L, i) == i < L

\* the loop of UMGMQuantizer.encode with what every level was handed and what
\* it returned: for encoder in self._encoders: x, code = encoder.encode(x)
RECURSIVE UMGMEncodeSteps(_, _, _)
UMGMEncodeSteps(cb, x, i) ==
    IF i > Len(cb) THEN <<>>
    ELSE Only({<<[level |-> i - 1, input |-> x, residual |-> r.residual, code |-> r.code]>>
                    \o UMGMEncodeSteps(cb, r.residual, i + 1) :
                r \in {EncoderEncode(cb[i], x, HasHead(Len(cb), i))}})

\* the loop of UMGMQuantizer.decode over zip(self._decoders[::-1], codes[::-1])
\* with what every decoder was handed; a side head called on None raises
RECURSIVE UMGMDecodeSteps(_, _, _, _)
UMGMDecodeSteps(cb, codes, j, formerLevel) ==
    IF j > Min2(Len(cb), Len(codes)) THEN <<>>
    ELSE IF HasHead(Len(cb), Len(cb) + 1 - j) /\ formerLevel = Null
    THEN <<[level |-> Len(cb) - j, code |-> Len(codes) - j, formerLevel |-> Null,
            sideHead |-> TRUE, out |-> Null, raised |-> "TypeError"]>>
    ELSE Only({<<[level |-> Len(cb) - j, code |-> Len(codes) - j,
                  formerLevel |-> formerLevel,
                  sideHead |-> HasHead(Len(cb), Len(cb) + 1 - j),
                  out |-> xHat, raised |-> "ok"]>>
                    \o UMGMDecodeSteps(cb, codes, j + 1, xHat) :
                xHat \in {DecoderDecode(cb[Len(cb) + 1 - j], codes[Len(codes) + 1 - j],
                                        formerLevel, HasHead(Len(cb), Len(cb) + 1 - j))}})

\* the quantizers and inputs of the runs
LevelConfigs ==
    { [m |-> 1, k |-> <<4>>, ema |-> DefaultEma],
      [m |-> 2, k |-> <<3, 2>>, ema |-> DefaultEma],
      [m |-> 1, k |-> <<4, 3, 2>>, ema |-> DefaultEma],
      [m |-> 2, k |-> <<4, 3, 2>>, ema |-> DefaultEma] }
LevelArgs(mm) ==
    {PatternFeature(n, mm * EmbedDim, h, w, a, b) :
        n \in 1..MaxN, h \in 1..MaxH, w \in 1..MaxW, a \in {1, 2, 3}, b \in {0, 1}}

\* one process with a UMGMQuantizer
InitLevels ==
    \E cf \in LevelConfigs :
        /\ InitWith({0}, cf)
        /\ nanCast = NoNan
        /\ codebook = [w \in {0} |-> NewCodebook(cf.m, cf.k, 0)]
        /\ feed = {}
        /\ arg \in LevelArgs(cf.m)

\* codes = quantizer.encode(x)
DoLEncode ==
    /\ sent = Null
    /\ \E st \in {UMGMEncodeSteps(codebook[0], arg, 1)} :
        sent' = [w |-> 0, x |-> arg, steps |-> st,
                 codes |-> ToList([j \in 1..Len(st) |-> st[j].code]), raised |-> "ok"]
    /\ UNCHANGED <<nanCast, nets, relog, world, m, k, decay, coder, codebook, rng, calls,
                   bcast, pc, job, rounds, fwdLog, feed, arg, got>>

\* xHat = quantizer.decode(codes)
DoLDecode ==
    /\ sent # Null
    /\ got = Null
    /\ \E st \in {UMGMDecodeSteps(codebook[0], sent.codes, 1, Null)} :
        got' = [codes |-> sent.codes, steps |-> st,
                raised |-> IF st = <<>> THEN "ok" ELSE st[Len(st)].raised,
                restored |-> IF st = <<>> THEN Null ELSE st[Len(st)].out]
    /\ UNCHANGED <<nanCast, nets, relog, world, m, k, decay, coder, codebook, rng, calls,
                   bcast, pc, job, rounds, fwdLog, feed, arg, sent>>

NextLevels == DoLEncode \/ DoLDecode
SpecLevels == InitLevels /\ [][NextLevels]_vars

\* C21: UMGMQuantizer.encode runs the levels in index order 0..L-1; level 0 is
\* handed the raw input, every later level exactly the residual the level
\* before it returned (its latent minus the dequantization of its own code),
\* the absent residual of the last level is handed to nobody, and L codes come
\* back with codes[i] made by level i
C21_ResidualChain ==
    sent # Null =>
        /\ Len(sent.steps) = Len(k)
        /\ Len(sent.codes) = Len(k)
        /\ sent.steps[1].input = sent.x
        /\ \A j \in 1..Len(k) :
            /\ sent.steps[j].level = j - 1
            /\ sent.steps[j].input # Null
            /\ sent.codes[j] = QuantEncode(codebook[0][j], sent.steps[j].input)
            /\ j > 1 => sent.steps[j].input
                            = TSub(sent.steps[j - 1].input,
                                   DequantDecode(codebook[0][j - 1], sent.codes[j - 1]))
        /\ sent.steps[Len(k)].residual = Null

\* an encode over three levels whose residuals are not zero
C21_Witness ==
    /\ sent # Null
    /\ Len(k) = 3
    /\ sent.steps[2].input # sent.x
    /\ sent.steps[3].input # sent.steps[2].input
    /\ \E i \in 1..sent.x.shape[1] : \E y \in 1..sent.x.shape[3] :
            sent.steps[3].input.data[i][1][y][1] # 0

\* C22: UMGMQuantizer.decode runs the decoders in the order L-1..0, each on the
\* code of its own level; the former level is None for the first decoder run
\* and for no other, that decoder is the one built without a side head and
\* the only one, every other decoder is handed the output of the decoder run
\* just before it, and no side head is called on None
C22_DecodeChain ==
    got # Null =>
        /\ got.raised = "ok"
        /\ Len(got.steps) = Len(k)
        /\ \A j \in 1..Len(got.steps) :
            /\ got.steps[j].level = Len(k) - j
            /\ got.steps[j].code = got.steps[j].level
            /\ (got.steps[j].formerLevel = Null) <=> (j = 1)
            /\ got.steps[j].sideHead <=> (j # 1)
            /\ j > 1 => got.steps[j].formerLevel = got.steps[j - 1].out
            /\ got.steps[j].out
                    = (IF j = 1
                       THEN DequantDecode(codebook[0][Len(k) + 1 - j], got.codes[Len(k) + 1 - j])
                       ELSE TAdd(DequantDecode(codebook[0][Len(k) + 1 - j],
                                               got.codes[Len(k) + 1 - j]),
                                 got.steps[j - 1].out))
        /\ got.restored = got.steps[Len(k)].out

\* a decode of three levels whose levels hold different codes
C22_Witness ==
    /\ got # Null
    /\ Len(k) = 3
    /\ Len(got.steps) = 3
    /\ got.steps[3].out # got.steps[2].out
    /\ got.steps[2].out # got.steps[1].out
    /\ got.codes[1].data # got.codes[3].data

\* ======================================= reAssignCodebook on any histogram
\* the largest K of a group and the largest usage of an entry in the direct
\* calls of _multiCodebookQuantization.reAssignCodebook(freq)
MaxGroupK == 5
MaxUsage == 2

\* a freq argument [1, K]: any usage per entry, all zero included
FreqRows(K) == [1..K -> 0..MaxUsage]
FreqOfRow(row) == <<[num |-> ToList(row), den |-> Max2(1, SumSeq(ToList(row)))]>>

\* one _multiCodebookQuantization of one group of K entries and the freq
\* tensor its reAssignCodebook is about to be called with
InitGroup ==
    \E K \in 1..MaxGroupK :
        /\ InitWith({0}, [m |-> 1, k |-> <<K>>, ema |-> DefaultEma])
        /\ nanCast = NoNan
        /\ codebook = [w \in {0} |-> NewCodebook(1, <<K>>, 0)]
        /\ feed = {}
        /\ \E row \in FreqRows(K) : arg = FreqOfRow(row)

\* quantizer.reAssignCodebook(freq)
DoReAssignDirect ==
    /\ calls[0].reassign < MaxRefresh
    /\ \E perm \in Perms, tie \in Ties :
        \E r \in {ReAssignLevel(codebook[0][1], arg, perm, tie)} :
            /\ codebook' = [codebook EXCEPT ![0] = <<r.codebook>>]
            /\ relog' = [relog EXCEPT ![0].re =
                            [before |-> codebook[0], after |-> <<r.codebook>>,
                             freqs |-> <<arg>>, locals |-> <<r.locals>>,
                             proportion |-> CatMean(<<r.proportion>>)]]
    /\ calls' = [calls EXCEPT ![0].reassign = @ + 1]
    /\ rng' = [rng EXCEPT ![0] = @ + 1]
    /\ UNCHANGED <<nanCast, nets, world, m, k, decay, coder, bcast, pc, job, rounds, fwdLog,
                   feed, arg, sent, got>>

SpecGroup == InitGroup /\ [][DoReAssignDirect]_vars

\* C23: one reAssignCodebook call writes at most K div 2 entries of a group
\* and changes at most as many, whatever the histogram, also when every entry
\* of the group is never assigned
C23_AtMostHalf ==
    \A w \in world : Re(w) # Null =>
        \A lg \in Groups(Re(w)) :
            /\ Len(Re(w).locals[lg[1]][lg[2]].neverAssignedLoc) <= k[lg[1]] \div 2
            /\ Cardinality({e \in 1..k[lg[1]] :
                    Re(w).after[lg[1]][lg[2]][e] # Re(w).before[lg[1]][lg[2]][e]})
                    <= k[lg[1]] \div 2

\* a call on a group of 5 entries that are all never assigned: 2 are written
C23_Witness ==
    /\ Re(0) # Null
    /\ k = <<5>>
    /\ BelowEps(Re(0).freqs[1][1]) = 1..5
    /\ Len(Re(0).locals[1][1].neverAssignedLoc) = 2
    /\ Cardinality(Re(0).locals[1][1].dropped) = 3

\* ================================ ResidualBackwardQuantizer, level by level
\* list[i] of Python for a list of L items, as a 0-based position: a negative
\* i counts from the end, and -0 is 0
PyIndex(L, i) == IF i < 0 THEN L + i ELSE i

\* self._dequantizers[-level], self._backwards[-level]
BackwardIndex(L, level) == PyIndex(L, 0 - level)
\* self._decoders[-(level+1)], self._dequantizers[-(level+1)]
ForwardIndex(L, level) == PyIndex(L, 0 - (level + 1))
\* zip(self._decoders[::-1], self._dequantizers[::-1], codes): the modules
\* that decode uses at position j of codes
DecodeIndex(L, j) == L - 1 - j

\* residual_backward(code, level)
ResidualBackward(cbl, nn, code, level) ==
    [op |-> "residual_backward", level |-> level,
     index |-> BackwardIndex(Len(nn.size), level),
     out |-> RApply(nn.backwards[BackwardIndex(Len(nn.size), level) + 1],
                    DequantDecode(cbl, code))]

\* residual_forward(code, formerLevel, level)
ResidualForward(cbl, nn, code, formerLevel, level) ==
    IF (formerLevel = Null /\ level > 0) \/ (formerLevel # Null /\ level = 0)
    THEN [op |-> "residual_forward", level |-> level, raised |-> "RuntimeError",
          index |-> Null, out |-> Null]
    ELSE [op |-> "residual_forward", level |-> level, raised |-> "ok",
          index |-> ForwardIndex(Len(nn.size), level),
          out |-> RApply(nn.decoders[ForwardIndex(Len(nn.size), level) + 1],
                         IF formerLevel = Null THEN DequantDecode(cbl, code)
                         ELSE TAdd(DequantDecode(cbl, code), formerLevel))]

\* the histogram a quantizer was built with, self._entropyCoder._freqEMA[-(i+1)],
\* and the one reAssignCodebook hands it, zip(self._quantizers, freqs): both as
\* 0-based positions in _freqEMA
BuiltWith(L, i) == PyIndex(L, 0 - (i + 1))
HandedTo(L, i) == i

\* ResidualBackwardQuantizer.reAssignCodebook: the quantizers in list order,
\* each on the one shared codebook as the call before left it
RECURSIVE RReAssignFrom(_, _, _, _, _)
RReAssignFrom(cbl, freqs, i, perm, tie) ==
    IF i >= Len(freqs) THEN [codebook |-> cbl, calls |-> <<>>, reassigned |-> <<>>]
    ELSE Only({ Only({[codebook |-> rest.codebook,
                       calls |-> <<[quantizer |-> i, handed |-> HandedTo(Len(freqs), i),
                                    built |-> BuiltWith(Len(freqs), i),
                                    before |-> cbl, after |-> r.codebook]>> \o rest.calls,
                       reassigned |-> <<r.proportion>> \o rest.reassigned] :
                    rest \in {RReAssignFrom(r.codebook, freqs, i + 1, perm, tie)}}) :
                r \in {ReAssignLevel(cbl, freqs[HandedTo(Len(freqs), i) + 1], perm, tie)}})
RReAssign(cbl, freqs, perm, tie) ==
    Only({[codebook |-> r.codebook, calls |-> r.calls,
           proportion |-> CatMean(r.reassigned)] :
            r \in {RReAssignFrom(cbl, freqs, 0, perm, tie)}})

\* a trained ResidualBackwardQuantizer: the levels keep the size, and every
\* level has a histogram of its own
ROpsSizes == {<<2, 2>>, <<2, 2, 2>>}
InitResidualOps ==
    \E size \in ROpsSizes, par \in RPars :
        /\ InitBase({0}, [m |-> 1, k |-> ToList([l \in 1..Len(size) |-> ResidualK]),
                          ema |-> DefaultEma])
        /\ nanCast = NoNan
        /\ nets = RBuild(size, par)
        /\ \E dead \in [1..Len(size) -> 0..(MaxDead - 1)], deadFirst \in BOOLEAN :
            coder = [w \in {0} |->
                        [NewCoder(1, ToList([l \in 1..Len(size) |-> ResidualK])) EXCEPT
                            !.freqEMA = ToList([l \in 1..Len(size) |->
                                <<TrainedRow(ResidualK, dead[l],
                                             IF l = 1 THEN deadFirst ELSE ~deadFirst)>>])]]
        /\ codebook = [w \in {0} |->
                ToList([l \in 1..Len(size) |-> NewCodebook(1, <<ResidualK>>, 0)[1]])]
        /\ feed = {}
        /\ arg = PatternCode(1, 1, size[1], size[1], ResidualK, 1, 0, 1)

\* quantizer.reAssignCodebook()
DoRReAssign ==
    /\ calls[0].reassign < MaxRefresh
    /\ \E perm \in Perms, tie \in Ties :
        \E r \in {RReAssign(codebook[0][1], NormalizedFreq(coder[0]), perm, tie)} :
            /\ codebook' = [codebook EXCEPT ![0] =
                                ToList([l \in 1..Len(k) |-> r.codebook])]
            /\ relog' = [relog EXCEPT ![0].re =
                            [before |-> codebook[0][1], after |-> r.codebook,
                             freqs |-> NormalizedFreq(coder[0]), calls |-> r.calls,
                             proportion |-> r.proportion]]
    /\ calls' = [calls EXCEPT ![0].reassign = @ + 1]
    /\ rng' = [rng EXCEPT ![0] = @ + 1]
    /\ UNCHANGED <<nanCast, nets, world, m, k, decay, coder, bcast, pc, job, rounds, fwdLog,
                   feed, arg, sent, got>>

\* quantizer.residual_backward(code, level)
DoResidualBackward ==
    /\ \E level \in 0..(Len(k) - 1) :
        sent' = ResidualBackward(codebook[0][1], nets, arg, level)
    /\ UNCHANGED <<nanCast, nets, relog, world, m, k, decay, coder, codebook, rng, calls,
                   bcast, pc, job, rounds, fwdLog, feed, arg, got>>

\* quantizer.residual_forward(code, formerLevel, level), formerLevel None or a
\* tensor of the shape of the dequantized code
DoResidualForward ==
    /\ \E level \in 0..(Len(k) - 1), former \in {Null, DequantDecode(codebook[0][1], arg)} :
        got' = ResidualForward(codebook[0][1], nets, arg, former, level)
    /\ UNCHANGED <<nanCast, nets, relog, world, m, k, decay, coder, codebook, rng, calls,
                   bcast, pc, job, rounds, fwdLog, feed, arg, sent>>

NextResidualOps == DoRReAssign \/ DoResidualBackward \/ DoResidualForward
SpecResidualOps == InitResidualOps /\ [][NextResidualOps]_vars

\* C24: ResidualBackwardQuantizer.reAssignCodebook overwrites an entry of the
\* shared codebook only if its usage is below epsilon in the histogram of
\* every level, and hands every quantizer the histogram it was built with
C24_DeadEverywhere ==
    Re(0) # Null =>
        /\ \A e \in 1..ResidualK :
            Re(0).after[1][e] # Re(0).before[1][e] =>
                \A l \in 1..Len(k) : e \in BelowEps(Re(0).freqs[l][1])
        /\ \A c \in 1..Len(Re(0).calls) : Re(0).calls[c].handed = Re(0).calls[c].built

\* C29: for every level argument l, residual_backward(code, l) uses the
\* modules of the level whose modules residual_forward(code, formerLevel, l)
\* uses, the level that decode processes at position l
C29_SameLevel ==
    /\ sent # Null => sent.index = DecodeIndex(Len(k), sent.level)
    /\ (got # Null /\ got.raised = "ok") => got.index = DecodeIndex(Len(k), got.level)
    /\ (sent # Null /\ got # Null /\ got.raised = "ok" /\ sent.level = got.level) =>
            sent.index = got.index

\* ===================================================== the training loop
\* _baseTrainer.train with a CodebookReassign(freq) hook, one trainer per rank
MaxEpoch == 2
MaxBatch == 2
MaxFreq == 3


\* a hook that takes the step before the trainer counts it
StepFinishStepLate(step) == step
\* _stepFinish: self._step += 1, then the hook is called with self._step
StepFinishStep(step) == step + 1

\* _epochFinish: self._epoch += 1, then the hook is called with self._epoch
EpochFinishEpoch(epoch) == epoch + 1

\* a refresh every freq-th value of the step argument
ReassignDueOnStep(step, freq) == step % freq = 0
\* CodebookReassign.stepFinish: `if (step + 1) % self._freq != 0: return`
ReassignDue(step, freq) == (step + 1) % freq = 0

\* a loop that leaves the epoch at its last batch
AfterBatchLeaves(batch, B) == IF batch + 1 < B THEN "loop" ELSE "epochStart"
\* `for images in trainLoader`: after the body the loader is asked again
AfterBatch(batch, B) == "loop"

\* `for _ in range(self._epoch, self.config.Train.Epoch)`: the iterations left
EpochsLeft(epoch, E) == Max2(0, E - epoch)

\* hook(self._step, self._epoch, self, ...)
HookCall(ev, j) == [ev |-> ev, step |-> j.step, epoch |-> j.epoch]

\* the checkpoints a run may resume from: whole epochs of B batches
Checkpoints(E, B) == {Null} \cup {[step |-> e * B, epoch |-> e] : e \in 1..E}

InitTrain ==
    \E E \in 0..MaxEpoch, B \in 0..MaxBatch, freq \in 1..MaxFreq :
        /\ world = 0..(NumWorkers - 1)
        /\ m = 1
        /\ k = <<ResidualK>>
        /\ decay = DecayDen - DefaultEma
        /\ coder = [w \in world |-> NewCoder(1, <<ResidualK>>)]
        /\ codebook = [w \in world |-> Null]
        /\ rng = [w \in world |-> 0]
        /\ calls = [w \in world |-> [reassign |-> 0, sync |-> 0]]
        /\ bcast = <<>>
        /\ pc = [w \in world |-> "train"]
        /\ job = [w \in world |-> [step |-> 0, epoch |-> 0, batch |-> 0, left |-> 0]]
        /\ rounds = <<>>
        /\ fwdLog = [w \in world |-> <<>>]
        /\ feed = {}
        /\ \E ckpt \in Checkpoints(E, B) :
            arg = [Epoch |-> E, batches |-> B, freq |-> freq, tmpFile |-> ckpt]
        /\ sent = Null
        /\ got = Null
        /\ nanCast = NoNan
        /\ relog = [w \in world |-> [re |-> Null, syncIn |-> <<>>, syncOut |-> <<>>]]
        /\ nets = Null

\* what an action of worker w leaves alone
TrainFrame ==
    UNCHANGED <<world, m, k, decay, coder, codebook, rng, bcast, feed, arg, sent, got,
                nanCast, relog, nets>>

\* the head of the epoch loop: another epoch, or the end of the run
EpochLoop(left) == IF left > 0 THEN "epochStart" ELSE "afterRun"

\* train up to the epoch loop: _beforeRun restores the states, then calls the hook
DoBeforeRun ==
    \E w \in world :
        /\ pc[w] = "train"
        /\ \E j \in {IF arg.tmpFile = Null THEN job[w]
                     ELSE [job[w] EXCEPT !.step = arg.tmpFile.step,
                                         !.epoch = arg.tmpFile.epoch]} :
            \E left \in {EpochsLeft(j.epoch, arg.Epoch)} :
                /\ job' = [job EXCEPT ![w] = [j EXCEPT !.left = left]]
                /\ fwdLog' = [fwdLog EXCEPT ![w] = Append(@, HookCall("beforeRun", j))]
                /\ pc' = [pc EXCEPT ![w] = EpochLoop(left)]
        /\ UNCHANGED <<calls, rounds>>
        /\ TrainFrame

\* _epochStart, and the loader is opened
DoEpochStart ==
    \E w \in world :
        /\ pc[w] = "epochStart"
        /\ job' = [job EXCEPT ![w].batch = 0]
        /\ fwdLog' = [fwdLog EXCEPT ![w] = Append(@, HookCall("epochStart", job[w]))]
        /\ pc' = [pc EXCEPT ![w] = "loop"]
        /\ UNCHANGED <<calls, rounds>>
        /\ TrainFrame

\* the loader yields a batch: transform, _stepStart
DoStepStart ==
    \E w \in world :
        /\ pc[w] = "loop"
        /\ job[w].batch < arg.batches
        /\ fwdLog' = [fwdLog EXCEPT ![w] = Append(@, HookCall("stepStart", job[w]))]
        /\ pc' = [pc EXCEPT ![w] = "optimizer"]
        /\ UNCHANGED <<job, calls, rounds>>
        /\ TrainFrame

\* zero_grad, forward, backward, clip_grad_norm_, self._optimizer.step()
DoOptimizer ==
    \E w \in world :
        /\ pc[w] = "optimizer"
        /\ fwdLog' = [fwdLog EXCEPT ![w] = Append(@, HookCall("optimizer", job[w]))]
        /\ pc' = [pc EXCEPT ![w] = "stepFinish"]
        /\ UNCHANGED <<job, calls, rounds>>
        /\ TrainFrame

\* worker w joins its next collective refresh
JoinRound(w, step) ==
    IF calls[w].reassign + 1 > Len(rounds)
    THEN Append(rounds, (w :> step))
    ELSE [rounds EXCEPT ![calls[w].reassign + 1] = @ @@ (w :> step)]

\* _stepFinish with the CodebookReassign hook: a due refresh blocks in the
\* collective
DoStepFinish ==
    \E w \in world :
        /\ pc[w] = "stepFinish"
        /\ \E j \in {[job[w] EXCEPT !.step = StepFinishStep(job[w].step)]} :
            /\ job' = [job EXCEPT ![w] = [j EXCEPT !.step = job[w].step + 1,
                                                   !.batch = @ + 1]]
            /\ IF ReassignDue(j.step, arg.freq)
               THEN /\ fwdLog' = [fwdLog EXCEPT ![w] =
                                    @ \o <<HookCall("stepFinish", j), HookCall("refresh", j)>>]
                    /\ rounds' = JoinRound(w, j.step)
                    /\ calls' = [calls EXCEPT ![w].reassign = @ + 1]
                    /\ pc' = [pc EXCEPT ![w] = "refresh"]
               ELSE /\ fwdLog' = [fwdLog EXCEPT ![w] = Append(@, HookCall("stepFinish", j))]
                    /\ pc' = [pc EXCEPT ![w] = AfterBatch(job[w].batch, arg.batches)]
                    /\ UNCHANGED <<rounds, calls>>
        /\ TrainFrame

\* the collective refresh returns once every rank has entered it
DoRefreshReturn ==
    \E w \in world :
        /\ pc[w] = "refresh"
        /\ DOMAIN rounds[calls[w].reassign] = world
        /\ pc' = [pc EXCEPT ![w] = AfterBatch(job[w].batch - 1, arg.batches)]
        /\ UNCHANGED <<job, fwdLog, calls, rounds>>
        /\ TrainFrame

\* the loader is exhausted: _epochFinish
DoEpochFinish ==
    \E w \in world :
        /\ pc[w] = "loop"
        /\ job[w].batch >= arg.batches
        /\ \E j \in {[job[w] EXCEPT !.epoch = EpochFinishEpoch(job[w].epoch)]} :
            /\ job' = [job EXCEPT ![w] = [j EXCEPT !.epoch = job[w].epoch + 1,
                                                   !.left = @ - 1]]
            /\ fwdLog' = [fwdLog EXCEPT ![w] = Append(@, HookCall("epochFinish", j))]
            /\ pc' = [pc EXCEPT ![w] = EpochLoop(job[w].left - 1)]
        /\ UNCHANGED <<calls, rounds>>
        /\ TrainFrame

\* _afterRun
DoAfterRun ==
    \E w \in world :
        /\ pc[w] = "afterRun"
        /\ fwdLog' = [fwdLog EXCEPT ![w] = Append(@, HookCall("afterRun", job[w]))]
        /\ pc' = [pc EXCEPT ![w] = "done"]
        /\ UNCHANGED <<job, calls, rounds>>
        /\ TrainFrame

NextTrain ==
    \/ DoBeforeRun \/ DoEpochStart \/ DoStepStart \/ DoOptimizer
    \/ DoStepFinish \/ DoRefreshReturn \/ DoEpochFinish \/ DoAfterRun
SpecTrain == InitTrain /\ [][NextTrain]_vars

\* ------------------------------------------------ claims on the training loop
\* the counters a run starts from: zero, or those of the checkpoint it resumes
StartStep == IF arg.tmpFile = Null THEN 0 ELSE arg.tmpFile.step
StartEpoch == IF arg.tmpFile = Null THEN 0 ELSE arg.tmpFile.epoch

\* the events of worker w but the refreshes its hooks started
TrainEvents(w) ==
    [i \in 1..Len(SelectSeq(fwdLog[w], LAMBDA e : e.ev # "refresh")) |->
        SelectSeq(fwdLog[w], LAMBDA e : e.ev # "refresh")[i].ev]

\* BeforeRun, E times (EpochStart, B times (StepStart, optimizer, StepFinish),
\* EpochFinish), AfterRun
ExpectedOrder(E, B) ==
    [i \in 1..(2 + E * (2 + 3 * B)) |->
        IF i = 1 THEN "beforeRun"
        ELSE IF i = 2 + E * (2 + 3 * B) THEN "afterRun"
        ELSE IF (i - 2) % (2 + 3 * B) = 0 THEN "epochStart"
        ELSE IF (i - 2) % (2 + 3 * B) = 1 + 3 * B THEN "epochFinish"
        ELSE <<"stepStart", "optimizer", "stepFinish">>[
                    ((((i - 2) % (2 + 3 * B)) - 1) % 3) + 1]]

\* how many events named ev are among the first i of worker w
CountEvents(w, ev, i) == Cardinality({n \in 1..i : fwdLog[w][n].ev = ev})

\* C25: the hooks of a run over E epochs of B batches are called in the order
\* BeforeRun, then per epoch EpochStart, per batch StepStart, the optimizer
\* step, StepFinish, then EpochFinish, and at last AfterRun: what a worker has
\* called so far is the beginning of that sequence, and all of it once train
\* has returned
C25_HookOrder ==
    \A w \in world :
        /\ Len(TrainEvents(w)) <= 2 + EpochsLeft(StartEpoch, arg.Epoch) * (2 + 3 * arg.batches)
        /\ TrainEvents(w) =
             SubSeq(ExpectedOrder(EpochsLeft(StartEpoch, arg.Epoch), arg.batches),
                    1, Len(TrainEvents(w)))
        /\ pc[w] = "done" =>
             TrainEvents(w) = ExpectedOrder(EpochsLeft(StartEpoch, arg.Epoch), arg.batches)

\* a worker has finished a run of two epochs of two batches
C25_Witness ==
    \E w \in world :
        /\ pc[w] = "done"
        /\ EpochsLeft(StartEpoch, arg.Epoch) = 2
        /\ arg.batches = 2
        /\ Len(TrainEvents(w)) = 18

\* C26: every hook is handed the number of steps and of epochs completed so
\* far, the step of a StepFinish and the epoch of an EpochFinish counted in;
\* the trainer's counters are those numbers, and the values handed to the
\* hooks never decrease
C26_CountersFirst ==
    \A w \in world :
        /\ \A i \in 1..Len(fwdLog[w]) :
            /\ fwdLog[w][i].step = StartStep + CountEvents(w, "stepFinish", i)
            /\ fwdLog[w][i].epoch = StartEpoch + CountEvents(w, "epochFinish", i)
            /\ i > 1 => /\ fwdLog[w][i].step >= fwdLog[w][i - 1].step
                        /\ fwdLog[w][i].epoch >= fwdLog[w][i - 1].epoch
        /\ fwdLog[w] # <<>> =>
            /\ job[w].step = StartStep + CountEvents(w, "stepFinish", Len(fwdLog[w]))
            /\ job[w].epoch = StartEpoch + CountEvents(w, "epochFinish", Len(fwdLog[w]))

\* a resumed worker has finished a step and an epoch after it
C26_Witness ==
    \E w \in world :
        /\ arg.tmpFile # Null
        /\ CountEvents(w, "stepFinish", Len(fwdLog[w])) >= 2
        /\ CountEvents(w, "epochFinish", Len(fwdLog[w])) >= 1

\* C27: a worker enters the refresh at the StepFinish events whose step
\* argument s has (s + 1) mod freq = 0 and nowhere else; the workers that
\* entered the same refresh did so at the same step, no worker waits in a
\* refresh the others will not enter, and when all have finished every refresh
\* was entered by all
C27_RefreshTogether ==
    /\ \A w \in world : \A i \in 1..Len(fwdLog[w]) :
        /\ fwdLog[w][i].ev = "refresh" =>
            /\ i > 1
            /\ fwdLog[w][i - 1].ev = "stepFinish"
            /\ fwdLog[w][i - 1].step = fwdLog[w][i].step
            /\ (fwdLog[w][i].step + 1) % arg.freq = 0
        /\ (fwdLog[w][i].ev = "stepFinish" /\ (fwdLog[w][i].step + 1) % arg.freq = 0) =>
            /\ i < Len(fwdLog[w])
            /\ fwdLog[w][i + 1].ev = "refresh"
    /\ \A r \in 1..Len(rounds) : \A v, w \in DOMAIN rounds[r] : rounds[r][v] = rounds[r][w]
    /\ (\A w \in world : \/ pc[w] = "done"
                          \/ /\ pc[w] = "refresh"
                             /\ DOMAIN rounds[calls[w].reassign] # world) =>
            /\ \A w \in world : pc[w] = "done"
            /\ \A r \in 1..Len(rounds) : DOMAIN rounds[r] = world

\* all workers have finished a run in which they refreshed twice, other steps
\* lying between
C27_Witness ==
    /\ \A w \in world : pc[w] = "done"
    /\ arg.freq = 2
    /\ Len(rounds) = 2
    /\ \A r \in 1..Len(rounds) : DOMAIN rounds[r] = world
    /\ rounds[1][0] = 1
    /\ rounds[2][0] = 3

\* ========================================================= the prefetcher
\* Prefetcher over a loader of arg samples; the n-th iter(loader) yields the
\* samples [it |-> n, idx |-> 1], ..., [it |-> n, idx |-> arg]
MaxLoader == 3
MaxIter == 3
MaxNext == 5

\* what a call of next(prefetcher) raises
Raised(e) == [raised |-> e]

\* next(self._iter): the sample, or Null for StopIteration
LoaderNext(it, K) == IF it.pos < K THEN [it |-> it.n, idx |-> it.pos + 1] ELSE Null

\* Prefetcher._preLoad
PreLoad(p, K) ==
    IF LoaderNext(p.iter, K) # Null
    THEN [p EXCEPT !.nextSample = LoaderNext(p.iter, K), !.iter.pos = @ + 1]
    ELSE [p EXCEPT !.nextSample = Null, !.exhausted = TRUE]

\* Prefetcher.__next__: the prefetcher after the call and what the call
\* returned or raised
PrefetcherNext(p, K) ==
    IF p.nextSample # Null
    THEN [self |-> PreLoad(p, K), out |-> p.nextSample]
    ELSE IF p.exhausted
    THEN [self |-> p, out |-> Raised("StopIteration")]
    ELSE IF PreLoad(p, K).nextSample = Null
    THEN \* sample.record_stream on None
         [self |-> PreLoad(p, K), out |-> Raised("AttributeError")]
    ELSE [self |-> PreLoad(PreLoad(p, K), K), out |-> PreLoad(p, K).nextSample]

\* Prefetcher.__iter__
PrefetcherIter(p, opened) ==
    [p EXCEPT !.exhausted = FALSE, !.iter = [n |-> opened + 1, pos |-> 0]]

\* Prefetcher.__init__
InitPrefetch ==
    \E K \in 0..MaxLoader :
        /\ InitBase({0}, [m |-> 1, k |-> <<ResidualK>>, ema |-> DefaultEma])
        /\ coder = [w \in {0} |-> NewCoder(1, <<ResidualK>>)]
        /\ codebook = [w \in {0} |-> Null]
        /\ nanCast = NoNan
        /\ nets = [iter |-> [n |-> 1, pos |-> 0], nextSample |-> Null,
                   exhausted |-> FALSE, opened |-> 1, begun |-> FALSE]
        /\ feed = {}
        /\ arg = K

\* iter(prefetcher): the results of the iteration it begins are collected anew
DoIter ==
    /\ nets.opened <= MaxIter
    /\ nets' = [PrefetcherIter(nets, nets.opened) EXCEPT !.opened = @ + 1,
                                                          !.begun = TRUE]
    /\ fwdLog' = [fwdLog EXCEPT ![0] = <<>>]
    /\ got' = Null
    /\ UNCHANGED <<nanCast, relog, world, m, k, decay, coder, codebook, rng, calls,
                   bcast, pc, job, rounds, feed, arg, sent>>

\* next(prefetcher)
DoNext ==
    /\ Len(fwdLog[0]) < MaxNext
    /\ \E r \in {PrefetcherNext(nets, arg)} :
        /\ nets' = r.self
        /\ fwdLog' = [fwdLog EXCEPT ![0] = Append(@, r.out)]
        /\ got' = r.out
    /\ UNCHANGED <<nanCast, relog, world, m, k, decay, coder, codebook, rng, calls,
                   bcast, pc, job, rounds, feed, arg, sent>>

NextPrefetch == DoIter \/ DoNext
SpecPrefetch == InitPrefetch /\ [][NextPrefetch]_vars

\* C28: the calls of next in an iteration begun with iter return the arg
\* samples of that loader pass, each once and in order, and raise
\* StopIteration ever after
C28_ExactlyK ==
    nets.begun =>
        \A i \in 1..Len(fwdLog[0]) :
            fwdLog[0][i] = IF i <= arg THEN [it |-> nets.iter.n, idx |-> i]
                           ELSE Raised("StopIteration")

\* ==================================================== the dataset creator
\* misc/datasetCreate.py main: arg.listA and arg.listB are the image files found
\* under the strict and the other directories, each file given by whether both
\* its sides reach 512
MaxFiles == 2
MaxBatchSize == 2

\* the files of one list: [list, idx, large]
FilesOf(name, larges) ==
    ToList([i \in 1..Len(larges) |-> [list |-> name, idx |-> i, large |-> larges[i]]])

\* getFilesFromDir(root, strict)
GetFilesFromDir(files, strict) == SelectSeq(files, LAMBDA f : ~strict \/ f.large)

\* the orders shuffle may leave n files in
Shuffles(n) == {p \in [1..n -> 1..n] : \A i, j \in 1..n : p[i] = p[j] => i = j}

\* the length main writes: the loop variable after the loop, unbound when the
\* loop never ran
MetadataLength(n) == IF n = 0 THEN [raised |-> "UnboundLocalError"] ELSE [length |-> n - 1]

\* main(targetDir): the LMDB records, keyed 0..n-1, and metadata.json
Main(listA, listB, p) ==
    [lmdb |-> [i \in 0..(Len(GetFilesFromDir(listA, TRUE) \o GetFilesFromDir(listB, FALSE)) - 1) |->
                (GetFilesFromDir(listA, TRUE) \o GetFilesFromDir(listB, FALSE))[p[i + 1]]],
     metadata |->
        MetadataLength(Len(GetFilesFromDir(listA, TRUE) \o GetFilesFromDir(listB, FALSE)))]

\* MainTrainer._epochStart: totalBatches = length // BatchSize; the file main
\* opened and left empty does not parse
TotalBatches(metadata, batchSize) ==
    IF "length" \in DOMAIN metadata THEN [totalBatches |-> metadata.length \div batchSize]
    ELSE [raised |-> "JSONDecodeError"]

Larges == UNION {[1..n -> BOOLEAN] : n \in 0..MaxFiles}

InitCreate ==
    /\ InitBase({0}, [m |-> 1, k |-> <<ResidualK>>, ema |-> DefaultEma])
    /\ coder = [w \in {0} |-> NewCoder(1, <<ResidualK>>)]
    /\ codebook = [w \in {0} |-> Null]
    /\ nanCast = NoNan
    /\ nets = Null
    /\ feed = {}
    /\ \E a \in Larges, b \in Larges :
        arg = [listA |-> FilesOf("A", ToList(a)), listB |-> FilesOf("B", ToList(b))]

\* python datasetCreate.py
DoMain ==
    /\ nets = Null
    /\ \E p \in Shuffles(Len(GetFilesFromDir(arg.listA, TRUE)
                             \o GetFilesFromDir(arg.listB, FALSE))) :
        nets' = Main(arg.listA, arg.listB, p)
    /\ UNCHANGED <<nanCast, relog, world, m, k, decay, coder, codebook, rng, calls,
                   bcast, pc, job, rounds, fwdLog, feed, arg, sent, got>>

\* the trainer reads metadata.json at the start of an epoch
DoParseLength ==
    /\ nets # Null
    /\ got = Null
    /\ \E batchSize \in 1..MaxBatchSize :
        got' = TotalBatches(nets.metadata, batchSize)
    /\ UNCHANGED <<nanCast, nets, relog, world, m, k, decay, coder, codebook, rng, calls,
                   bcast, pc, job, rounds, fwdLog, feed, arg, sent>>

NextCreate == DoMain \/ DoParseLength
SpecCreate == InitCreate /\ [][NextCreate]_vars

\* C30: the length written to metadata.json is the number of records stored in
\* the LMDB, whose keys are 0..length-1, for any number of input files
C30_LengthIsCount ==
    nets # Null =>
        /\ "length" \in DOMAIN nets.metadata
        /\ nets.metadata.length = Cardinality(DOMAIN nets.lmdb)
        /\ DOMAIN nets.lmdb = 0..(nets.metadata.length - 1)
====
